---- MODULE Spec2Model ----
(***************************************************************************)
(* Trade-lifecycle controller of funding-arb-bot (cli/main.py main_loop)   *)
(* with the Strategy Engine, the Portfolio Manager, the Kill Switch, the   *)
(* Position Store and the Execution Router it drives.                      *)
(*                                                                         *)
(* One action per step of the controller loop; each handler (execute_entry,*)
(* execute_exit, check_and_rebalance) is one action that covers the whole  *)
(* body of the handler.  Venue replies (funding rates, tickers, positions, *)
(* order results, exceptions) are inputs drawn from small sets.            *)
(*                                                                         *)
(* Modelling notes.                                                        *)
(*  - Rates, edges and notionals are integers (bps and USD); the inputs    *)
(*    are chosen so that base_notional * edge / 20 is exact.               *)
(*  - main.py defines the closures execute_entry, execute_exit and         *)
(*    check_and_rebalance textually after the `while True` loop that calls *)
(*    them (lines 366-644 against the calls at 348, 356, 362).  The model  *)
(*    binds each call to the closure's body, which is what the claims about*)
(*    those handlers are about; as written, Python raises UnboundLocalError*)
(*    at the call (see the notes on C10).                                  *)
(*  - PositionStore.save is modelled on a writable disk (its except branch *)
(*    at persistence.py:24-25 is not taken).                               *)
(***************************************************************************)
EXTENDS Integers, Sequences, FiniteSets, TLC

(***************************************************************************)
(* Configuration (config/schema.py) and the constants main_loop passes.    *)
(***************************************************************************)
min_edge_bps == 20

exit_edge_bps == 5

order_notional == 1000

max_total_notional == 3000

max_symbol_notional == 2000

max_positions == 5

max_consecutive_failures == 3

max_total_failures_per_hour == 10

BaselineBps == 20

MaxMultiplier == 2

RECONCILE_TOLERANCE_PCT == 2

(***************************************************************************)
(* Inputs the venues can return.                                           *)
(***************************************************************************)
\* <<hyperliquid_rate_bps, lighter_rate_bps>> of a funding poll
Rates == {<<40, 0>>, <<0, 40>>, <<0, 0>>, <<0, 10>>}

\* <<primary filled_size, hedge filled_size>> of an executed intent
Fills == {<<100, 100>>, <<100, 98>>, <<100, 0>>, <<0, 0>>}

\* The deployments checked: the tracked symbols, and which venue calls can fail:
\*   "all"  - every venue call can raise or reject, fills can be partial or zero;
\*   "some" - funding polls and order placement can raise, fills are complete;
\*   "none" - every venue call succeeds and fills completely.
\* In each of them a venue can report no position for a symbol.  rates gives, per
\* symbol, the funding rates its polls can return.
Deployments ==
    {[tracked |-> <<"A">>, faults |-> "all",
      rates |-> [s \in {"A"} |-> Rates]],
     [tracked |-> <<"A", "B">>, faults |-> "some",
      rates |-> [s \in {"A", "B"} |-> {<<40, 0>>, <<0, 40>>, <<0, 0>>}]],
     [tracked |-> <<"A", "B", "C">>, faults |-> "none",
      rates |-> [s \in {"A", "B", "C"} |->
                    IF s = "A" THEN {<<0, 40>>, <<0, 0>>} ELSE {<<40, 0>>, <<0, 0>>}]]}

Legs == {"primary", "hedge", "parallel"}

Abs(x) == IF x < 0 THEN -x ELSE x

Min(a, b) == IF a < b THEN a ELSE b

RECURSIVE SumSeq(_)
SumSeq(s) == IF s = <<>> THEN 0 ELSE Head(s) + SumSeq(Tail(s))

RECURSIVE SumFun(_)
SumFun(f) ==
    IF DOMAIN f = {} THEN 0
    ELSE LET k == CHOOSE x \in DOMAIN f : TRUE
         IN f[k] + SumFun([x \in DOMAIN f \ {k} |-> f[x]])

(***************************************************************************)
(* Python dicts.  A dict whose iteration order the code uses               *)
(* (context.positions, the JSON file) is a sequence of [k, v] items in     *)
(* insertion order; a dict that is only looked up (engine, portfolio) is a *)
(* function on its key set.                                                *)
(***************************************************************************)
Keys(d) == {d[i].k : i \in 1..Len(d)}

KeyList(d) == [i \in 1..Len(d) |-> d[i].k]

Get(d, key) == (CHOOSE i \in 1..Len(d) : d[i].k = key)

DictGet(d, key) == d[Get(d, key)].v

DictSet(d, key, val) ==
    IF key \in Keys(d)
    THEN [i \in 1..Len(d) |-> IF d[i].k = key THEN [k |-> key, v |-> val] ELSE d[i]]
    ELSE Append(d, [k |-> key, v |-> val])

DictPop(d, key) == SelectSeq(d, LAMBDA it : it.k # key)

FunSet(f, key, val) == [x \in DOMAIN f \cup {key} |-> IF x = key THEN val ELSE f[x]]

FunPop(f, key) == [x \in DOMAIN f \ {key} |-> f[x]]

(***************************************************************************)
(* Strategy Engine (strategy/engine.py).  The open map holds, per symbol,  *)
(* the enter decision that opened it.                                      *)
(***************************************************************************)
NoDecision == [symbol |-> "-", edge_bps |-> 0, direction |-> "-", size |-> 0, action |-> "none"]

Direction(edge) == IF edge > 0 THEN "long_hl_short_lighter" ELSE "long_lighter_short_hl"

ExitConditionStrict(edge) == Abs(edge) < exit_edge_bps

ExitCondition(edge) == Abs(edge) <= exit_edge_bps

EnterCondition(edge) == ~(Abs(edge) < min_edge_bps)

EvaluateStateless(open, sym, hl_rate_bps, lighter_rate_bps, notional) ==
    LET edge == hl_rate_bps - lighter_rate_bps
    IN  IF ~EnterCondition(edge)
        THEN [decision |-> NoDecision, open |-> open]
        ELSE [decision |-> [symbol |-> sym, edge_bps |-> edge,
                            direction |-> Direction(edge),
                            size |-> notional, action |-> "enter"],
              open |-> open]

\* evaluate(snapshot, notional): the decision returned and the open map after.
Evaluate(open, sym, hl_rate_bps, lighter_rate_bps, notional) ==
    LET edge == hl_rate_bps - lighter_rate_bps
    IN  IF sym \in DOMAIN open
        THEN IF ExitCondition(edge)
             THEN [decision |-> [symbol |-> sym, edge_bps |-> open[sym].edge_bps,
                                 direction |-> open[sym].direction,
                                 size |-> open[sym].size, action |-> "exit"],
                   open |-> FunPop(open, sym)]
             ELSE [decision |-> NoDecision, open |-> open]
        ELSE IF ~EnterCondition(edge)
             THEN [decision |-> NoDecision, open |-> open]
             ELSE [decision |-> [symbol |-> sym, edge_bps |-> edge,
                                 direction |-> Direction(edge),
                                 size |-> notional, action |-> "enter"],
                   open |-> FunSet(open, sym, [edge_bps |-> edge,
                                               direction |-> Direction(edge),
                                               size |-> notional])]

(***************************************************************************)
(* Portfolio Manager (strategy/portfolio.py).                              *)
(***************************************************************************)
AlreadyHasPositionNever(open, sym) == FALSE

\* "Skip if already have position"
AlreadyHasPosition(open, sym) == sym \in DOMAIN open

\* base_notional * min(edge_bps / 20, 2.0), capped at max_symbol_notional
ScaledNotional(base_notional, edge_bps) ==
    Min(Min((base_notional * edge_bps) \div BaselineBps, base_notional * MaxMultiplier),
        max_symbol_notional)

RECURSIVE AllocateFrom(_, _, _, _, _)
AllocateFrom(opps, i, open, allocations, total_allocated) ==
    IF i > Len(opps) THEN allocations
    ELSE IF AlreadyHasPosition(open, opps[i].symbol)
         THEN AllocateFrom(opps, i + 1, open, allocations, total_allocated)
    ELSE IF Cardinality(DOMAIN open) + Len(allocations) >= max_positions
         THEN allocations
    ELSE LET allocated == ScaledNotional(order_notional, opps[i].edge_bps)
             remaining == max_total_notional - total_allocated
             alloc(n)  == [symbol |-> opps[i].symbol, allocated_notional |-> n,
                           priority |-> i - 1]
         IN  IF total_allocated + allocated > max_total_notional
             THEN IF 2 * remaining > order_notional
                  THEN AllocateFrom(opps, i + 1, open,
                                    Append(allocations, alloc(remaining)),
                                    total_allocated + remaining)
                  ELSE allocations
             ELSE AllocateFrom(opps, i + 1, open,
                               Append(allocations, alloc(allocated)),
                               total_allocated + allocated)

Allocate(opps, open) == AllocateFrom(opps, 1, open, <<>>, SumFun(open))

EmptyMap == [x \in {} |-> 0]

RegisterPosition(open, sym, notional) == FunSet(open, sym, notional)

ClosePosition(open, sym) == FunPop(open, sym)

(***************************************************************************)
(* Kill Switch (infra/killswitch.py).  window is len(failure_timestamps);  *)
(* expired is the number of older timestamps that left the one-hour window *)
(* by the time of the call.  total_failures is written and never read; it  *)
(* is left out.                                                            *)
(***************************************************************************)
NewKillSwitch == [consecutive_failures |-> 0, window |-> 0, is_tripped |-> FALSE]

RecordSuccessClearsTrip(ks) ==
    [ks EXCEPT !.consecutive_failures = 0, !.is_tripped = FALSE]

RecordSuccess(ks) == [ks EXCEPT !.consecutive_failures = 0]

RecordFailureWindowOnly(ks, expired) ==
    LET w == ks.window - expired + 1
    IN  [consecutive_failures |-> ks.consecutive_failures + 1,
         window |-> w,
         is_tripped |-> ks.is_tripped \/ w >= max_total_failures_per_hour]

RecordFailure(ks, expired) ==
    LET c == ks.consecutive_failures + 1
        w == ks.window - expired + 1
    IN  [consecutive_failures |-> c,
         window |-> w,
         is_tripped |-> ks.is_tripped
                        \/ c >= max_consecutive_failures
                        \/ w >= max_total_failures_per_hour]

Expirable(ks, faults) == IF faults = "all" THEN {0, ks.window} ELSE {ks.window}

(***************************************************************************)
(* Reconciler (execution/reconciliation.py check_fills): the correction    *)
(* test on the two filled sizes, tolerance 2% as the router passes it.     *)
(***************************************************************************)
NeedsCorrectionAtTolerance(primary_filled, hedge_filled) ==
    LET imbalance == Abs(primary_filled - hedge_filled)
        sum2      == primary_filled + hedge_filled
    IN  sum2 > 0 /\ imbalance * 2 * 100 >= RECONCILE_TOLERANCE_PCT * sum2

NeedsCorrection(primary_filled, hedge_filled) ==
    LET imbalance == Abs(primary_filled - hedge_filled)
        sum2      == primary_filled + hedge_filled   \* 2 * avg_filled
    IN  sum2 > 0 /\ imbalance * 2 * 100 > RECONCILE_TOLERANCE_PCT * sum2

(***************************************************************************)
(* Position Store (infra/persistence.py) and the start-up restore          *)
(* (main.py 267-274).                                                      *)
(***************************************************************************)
\* .positions.json before the first save; content is the sequence of JSON
\* documents written into the file
NoFile == [exists |-> FALSE, content |-> <<>>]

\* json.dump of the values of a position: numbers, a string and a boolean
JsonNumber(n) == [type |-> "number", text |-> n]

JsonString(str) == [type |-> "string", text |-> str]

JsonBool(b) == [type |-> IF b THEN "true" ELSE "false", text |-> "-"]

\* json.load of a number or a string, and of true or false
FromJson(j) == j.text

BoolFromJson(j) == j.type = "true"

\* json.dump(positions): one JSON object, a member per symbol in dict order,
\* each an object of the position's fields
JsonDump(positions_) ==
    [i \in 1..Len(positions_) |->
        [name |-> positions_[i].k,
         value |-> [size |-> JsonNumber(positions_[i].v.size),
                    direction |-> JsonString(positions_[i].v.direction),
                    lighter_filled |-> JsonNumber(positions_[i].v.lighter_filled),
                    hl_filled |-> JsonNumber(positions_[i].v.hl_filled),
                    is_balanced |-> JsonBool(positions_[i].v.is_balanced)]]]

RECURSIVE JsonLoadFirstMember(_, _)
JsonLoadFirstMember(doc, n) ==
    IF n = 0 \/ doc = <<>> THEN <<>>
    ELSE <<[k |-> doc[1].name,
            v |-> [size |-> FromJson(doc[1].value.size),
                   direction |-> FromJson(doc[1].value.direction),
                   lighter_filled |-> FromJson(doc[1].value.lighter_filled),
                   hl_filled |-> FromJson(doc[1].value.hl_filled),
                   is_balanced |-> BoolFromJson(doc[1].value.is_balanced)]]>>

\* json.load of the first n members of a document: the dict built member by
\* member, a repeated name replacing the earlier value
RECURSIVE JsonLoad(_, _)
JsonLoad(doc, n) ==
    IF n = 0 THEN <<>>
    ELSE DictSet(JsonLoad(doc, n - 1), doc[n].name,
                 [size |-> FromJson(doc[n].value.size),
                  direction |-> FromJson(doc[n].value.direction),
                  lighter_filled |-> FromJson(doc[n].value.lighter_filled),
                  hl_filled |-> FromJson(doc[n].value.hl_filled),
                  is_balanced |-> BoolFromJson(doc[n].value.is_balanced)])

\* save: open(path, "w") truncates the file, json.dump writes one document
Save(positions_) == [exists |-> TRUE, content |-> <<JsonDump(positions_)>>]

\* load: {} when the file does not exist or does not hold exactly one JSON
\* document (json.load raises, caught at 34-36), else the decoded map
Load(file) ==
    IF ~file.exists \/ Len(file.content) # 1 THEN <<>>
    ELSE JsonLoad(file.content[1], Len(file.content[1]))

RestorePortfolioSkipped(persisted, i) == EmptyMap

RECURSIVE RestorePortfolio(_, _)
RestorePortfolio(persisted, i) ==
    IF i > Len(persisted) THEN EmptyMap
    ELSE LET rest == RestorePortfolio(persisted, i + 1)
         IN  IF persisted[i].k \in DOMAIN rest THEN rest
             ELSE FunSet(rest, persisted[i].k, persisted[i].v.size)

(***************************************************************************)
(* State of the controller (main.py main_loop).                            *)
(***************************************************************************)
VARIABLES
    deployment,     \* the configuration and venues this run is deployed on
    pc,             \* where the loop is: top, poll, entry, exit, rebalance, halted, crashed
    idx,            \* index of the item the current for-loop is at
    opportunities,  \* enter decisions collected in this tick
    allocations,    \* portfolio.allocate's result for this tick
    exitKeys,       \* list(context.positions.keys()) taken at line 351
    positions,      \* context.positions
    ctxState,       \* context.state
    engine,         \* engine._open_positions
    portfolio,      \* portfolio._open_positions
    store,          \* content of .positions.json
    killswitch,     \* the KillSwitch
    log,            \* event logged by the last step
    emitted,        \* intents and orders the last step handed to the router or a venue
    decided,        \* decision engine.evaluate returned in the last step
    transitions,    \* values the last step assigned to context.state, in order
    call,           \* a component called on its own: the method and its arguments
    ret             \* what that call returned or raised, and the venue calls it made

loopVars == <<deployment, pc, idx, opportunities, allocations, exitKeys,
              positions, ctxState, engine, portfolio, store, killswitch, log, emitted,
              decided, transitions>>

unitVars == <<call, ret>>

vars == <<deployment, pc, idx, opportunities, allocations, exitKeys,
          positions, ctxState, engine, portfolio, store, killswitch, log, emitted,
          decided, transitions, call, ret>>

NoCall == [op |-> "none"]

\* settings.strategy.tracked_symbols
tracked_symbols == deployment.tracked

venueFaults == deployment.faults

Intent(kind, sym, order_type) == [kind |-> kind, symbol |-> sym, order_type |-> order_type]

Init ==
    /\ deployment \in Deployments
    /\ pc = "top"
    /\ idx = 1
    /\ opportunities = <<>>
    /\ allocations = <<>>
    /\ exitKeys = <<>>
    /\ positions = <<>>
    /\ ctxState = "idle"
    /\ engine = EmptyMap
    /\ portfolio = EmptyMap
    /\ store = NoFile
    /\ killswitch = NewKillSwitch
    /\ log = "bot.initialized"
    /\ emitted = {}
    /\ decided = NoDecision
    /\ transitions = <<>>
    /\ call = NoCall
    /\ ret = NoCall

\* Process start: a new main_loop() over the files the last one left (237-278).
Restart ==
    /\ pc' = "top"
    /\ idx' = 1
    /\ opportunities' = <<>>
    /\ allocations' = <<>>
    /\ exitKeys' = <<>>
    /\ positions' = Load(store)
    /\ UNCHANGED unitVars
    /\ ctxState' = "idle"
    /\ engine' = EmptyMap
    /\ portfolio' = RestorePortfolio(Load(store), 1)
    /\ killswitch' = NewKillSwitch
    /\ log' = "bot.initialized"
    /\ emitted' = {}
    /\ decided' = NoDecision
    /\ transitions' = <<>>
    /\ UNCHANGED <<store, deployment>>

\* Top of the loop: the kill-switch check (296-303).
TickStartUnchecked ==
    /\ pc = "top"
    /\ UNCHANGED unitVars
    /\ pc' = "poll" /\ log' = "tick"
    /\ emitted' = {}
    /\ decided' = NoDecision
    /\ transitions' = <<>>
    /\ UNCHANGED <<deployment, idx, opportunities, allocations,
                   exitKeys, positions, ctxState, engine, portfolio, store, killswitch>>

TickStart ==
    /\ pc = "top"
    /\ UNCHANGED unitVars
    /\ IF killswitch.is_tripped
       THEN pc' = "halted" /\ log' = "bot_halted"
       ELSE pc' = "poll" /\ log' = "tick"
    /\ emitted' = {}
    /\ decided' = NoDecision
    /\ transitions' = <<>>
    /\ UNCHANGED <<deployment, idx, opportunities, allocations,
                   exitKeys, positions, ctxState, engine, portfolio, store, killswitch>>

\* The loop position after the entries of the tick: the exit loop over
\* list(context.positions.keys()), then the rebalance check, then the next tick
\* (350-364).  The locals of a finished phase are cleared.
AfterEntries(pos) ==
    IF pos = <<>> THEN [pc |-> "top", exitKeys |-> <<>>]
    ELSE [pc |-> "exit", exitKeys |-> KeyList(pos)]

AfterExits(pos) == IF pos = <<>> THEN "top" ELSE "rebalance"

\* The loop position after polling tracked symbol number i - 1: the next symbol, or
\* portfolio.allocate and the allocation loop (304-326).
AfterPolls(opps, i) ==
    IF i <= Len(tracked_symbols)
    THEN [pc |-> "poll", idx |-> i, opportunities |-> opps, allocations |-> <<>>,
          exitKeys |-> <<>>]
    ELSE LET allocs == IF opps = <<>> THEN <<>> ELSE Allocate(opps, portfolio)
         IN  IF allocs = <<>>
             THEN [pc |-> AfterEntries(positions).pc, idx |-> 1, opportunities |-> <<>>,
                   allocations |-> <<>>, exitKeys |-> AfterEntries(positions).exitKeys]
             ELSE [pc |-> "entry", idx |-> 1, opportunities |-> opps,
                   allocations |-> allocs, exitKeys |-> <<>>]

\* One iteration of the opportunity loop (304-312), poll_funding failing (291-294).
PollFails ==
    /\ pc = "poll"
    /\ UNCHANGED unitVars
    /\ venueFaults # "none"
    /\ \E expired \in Expirable(killswitch, venueFaults) :
           killswitch' = RecordFailure(killswitch, expired)
    /\ log' = "snapshot_failed"
    /\ decided' = NoDecision
    /\ LET nxt == AfterPolls(opportunities, idx + 1)
       IN  /\ pc' = nxt.pc
           /\ idx' = nxt.idx
           /\ opportunities' = nxt.opportunities
           /\ allocations' = nxt.allocations
           /\ exitKeys' = nxt.exitKeys
    /\ emitted' = {}
    /\ transitions' = <<>>
    /\ UNCHANGED <<deployment, positions, ctxState, engine, portfolio,
                   store>>

\* One iteration of the opportunity loop (304-312), poll_funding returning a snapshot.
PollSnapshot ==
    /\ pc = "poll"
    /\ UNCHANGED unitVars
    /\ \E r \in deployment.rates[tracked_symbols[idx]] :
         LET ev   == Evaluate(engine, tracked_symbols[idx], r[1], r[2], order_notional)
             opps == IF ev.decision.action = "enter"
                     THEN Append(opportunities, ev.decision)
                     ELSE opportunities
             nxt  == AfterPolls(opps, idx + 1)
         IN  /\ engine' = ev.open
             /\ decided' = ev.decision
             /\ pc' = nxt.pc
             /\ idx' = nxt.idx
             /\ opportunities' = nxt.opportunities
             /\ allocations' = nxt.allocations
             /\ exitKeys' = nxt.exitKeys
    /\ log' = "snapshot"
    /\ emitted' = {}
    /\ transitions' = <<>>
    /\ UNCHANGED <<deployment, positions, ctxState, portfolio, store,
                   killswitch>>

(***************************************************************************)
(* execute_entry (main.py 397-536).  An outcome names the first venue call *)
(* that ends the handler, or the router's result.                          *)
(***************************************************************************)
Outcome(kind, leg, p, h, order_type) ==
    [kind |-> kind, leg |-> leg, primary_filled |-> p, hedge_filled |-> h,
     order_type |-> order_type]

EntryOutcomes(faults) ==
    CASE faults = "none" -> {Outcome("filled", "-", 100, 100, "limit")}
      [] faults = "some" -> {Outcome("filled", "-", 100, 100, "limit")}
                            \cup {Outcome("exec_error", leg, 0, 0, "limit") : leg \in Legs}
      [] faults = "all" ->
            {Outcome(k, "-", 0, 0, "limit") :
                k \in {"risk_rejected", "price_fetch_failed", "spread_too_wide",
                       "symbols_raised", "spec_missing"}}
            \cup {Outcome("exec_error", leg, 0, 0, "limit") : leg \in Legs}
            \cup {Outcome("filled", "-", f[1], f[2], "limit") : f \in Fills}

\* What ExecutionRouter.execute hands to the venues (router.py 44-87): the
\* intent, and a makeup order when the fills need correction.
RouterEmits(kind, sym, o) ==
    {Intent(kind, sym, o.order_type)}
    \cup IF o.kind = "filled" /\ NeedsCorrection(o.primary_filled, o.hedge_filled)
         THEN {Intent("correction", sym, "market")}
         ELSE {}

\* The record stored in context.positions (511-519).
OpenedPosition(decision, o) ==
    [size |-> decision.size,
     direction |-> decision.direction,
     lighter_filled |-> o.primary_filled,
     hl_filled |-> o.hedge_filled,
     is_balanced |-> ~NeedsCorrection(o.primary_filled, o.hedge_filled)]

EntryFailureUnrecorded(ks, expired) == ks

\* except ExecutionError: killswitch.record_failure (534-536)
EntryFailure(ks, expired) == RecordFailure(ks, expired)

Keep == [positions |-> positions, portfolio |-> portfolio, store |-> store,
         killswitch |-> killswitch, emitted |-> {}, crashed |-> FALSE]

EntryEffect(sym, decision, o, expired) ==
    CASE o.kind = "risk_rejected" ->
           [Keep EXCEPT !.killswitch = RecordFailure(killswitch, expired)]
           @@ [log |-> "risk_check_failed", transitions |-> <<"entering">>]
      [] o.kind = "price_fetch_failed" ->
           [Keep EXCEPT !.killswitch = RecordFailure(killswitch, expired)]
           @@ [log |-> "price_fetch_failed", transitions |-> <<"entering">>]
      [] o.kind = "spread_too_wide" ->
           Keep @@ [log |-> "price_spread_too_wide", transitions |-> <<"entering">>]
      [] o.kind = "symbols_raised" ->
           [Keep EXCEPT !.crashed = TRUE]
           @@ [log |-> "uncaught_exception", transitions |-> <<"entering">>]
      [] o.kind = "spec_missing" ->
           Keep @@ [log |-> "symbol_spec_missing", transitions |-> <<"entering">>]
      [] o.kind = "exec_error" ->
           [Keep EXCEPT !.killswitch = EntryFailure(killswitch, expired),
                        !.emitted = RouterEmits("entry", sym, o)]
           @@ [log |-> "execution.failed", transitions |-> <<"entering">>]
      [] o.kind = "filled" ->
           LET pos == DictSet(positions, sym, OpenedPosition(decision, o))
           IN  [positions |-> pos,
                portfolio |-> RegisterPosition(portfolio, sym, decision.size),
                store |-> Save(pos),
                killswitch |-> RecordSuccess(killswitch),
                emitted |-> RouterEmits("entry", sym, o),
                crashed |-> FALSE,
                log |-> "position_opened",
                transitions |-> <<"entering", "hedged">>]

\* One iteration of the allocation loop (326-348) with the execute_entry it awaits.
ExecuteEntry ==
    /\ pc = "entry"
    /\ UNCHANGED unitVars
    /\ LET allocation == allocations[idx]
           sym  == allocation.symbol
           j    == CHOOSE i \in 1..Len(opportunities) : opportunities[i].symbol = sym
           decision == [opportunities[j] EXCEPT !.size = allocation.allocated_notional]
       IN  \E o \in EntryOutcomes(venueFaults), expired \in Expirable(killswitch, venueFaults) :
             LET e == EntryEffect(sym, decision, o, expired)
                 nxt == AfterEntries(e.positions)
             IN  /\ engine' = IF sym \in DOMAIN engine
                              THEN [engine EXCEPT ![sym].size = decision.size]
                              ELSE engine
                 /\ positions' = e.positions
                 /\ portfolio' = e.portfolio
                 /\ store' = e.store
                 /\ killswitch' = e.killswitch
                 /\ emitted' = e.emitted
                 /\ log' = e.log
                 /\ transitions' = e.transitions
                 /\ ctxState' = e.transitions[Len(e.transitions)]
                 /\ IF e.crashed
                    THEN /\ pc' = "crashed"
                         /\ opportunities' = [opportunities EXCEPT ![j] = decision]
                         /\ UNCHANGED <<idx, allocations, exitKeys>>
                    ELSE IF idx < Len(allocations)
                    THEN /\ pc' = "entry"
                         /\ idx' = idx + 1
                         /\ opportunities' = [opportunities EXCEPT ![j] = decision]
                         /\ UNCHANGED <<allocations, exitKeys>>
                    ELSE /\ pc' = nxt.pc
                         /\ idx' = 1
                         /\ opportunities' = <<>>
                         /\ allocations' = <<>>
                         /\ exitKeys' = nxt.exitKeys
    /\ decided' = NoDecision
    /\ UNCHANGED deployment

(***************************************************************************)
(* execute_exit (main.py 538-644).                                         *)
(***************************************************************************)
ExitOutcomes(faults) ==
    CASE faults = "none" -> {Outcome("no_positions", "-", 0, 0, "limit"),
                             Outcome("filled", "-", 100, 100, "limit")}
      [] faults = "some" -> {Outcome("no_positions", "-", 0, 0, "limit"),
                             Outcome("filled", "-", 100, 100, "limit")}
                            \cup {Outcome("exec_error", leg, 0, 0, "limit") : leg \in Legs}
      [] faults = "all" ->
            {Outcome(k, "-", 0, 0, "limit") : k \in {"positions_raised", "no_positions"}}
            \cup {Outcome("exec_error", leg, 0, 0, t) : leg \in Legs, t \in {"limit", "market"}}
            \cup {Outcome("filled", "-", f[1], f[2], t) : f \in Fills, t \in {"limit", "market"}}

\* pos_data = context.positions.pop(symbol) (544)
PopForExit(pos, sym) == DictPop(pos, sym)

ExitEffect(sym, o, expired) ==
    IF sym \notin Keys(positions)
    THEN Keep @@ [log |-> "exit_skipped", transitions |-> <<>>]
    ELSE
    LET pos == PopForExit(positions, sym)
        Popped == [Keep EXCEPT !.positions = pos]
    IN  CASE o.kind = "positions_raised" ->
               Popped @@ [log |-> "exit_check_failed", transitions |-> <<"exiting">>]
          [] o.kind = "no_positions" ->
               Popped @@ [log |-> "exit_no_positions", transitions |-> <<"exiting">>]
          [] o.kind = "exec_error" ->
               [Popped EXCEPT !.killswitch = RecordFailure(killswitch, expired),
                              !.emitted = RouterEmits("exit", sym, o)]
               @@ [log |-> "exit.failed", transitions |-> <<"exiting">>]
          [] o.kind = "filled" ->
               [positions |-> pos,
                portfolio |-> ClosePosition(portfolio, sym),
                store |-> Save(pos),
                killswitch |-> RecordSuccess(killswitch),
                emitted |-> RouterEmits("exit", sym, o),
                crashed |-> FALSE,
                log |-> "position_closed",
                transitions |-> <<"exiting", "idle">>]

\* One iteration of the exit loop (351-358), poll_funding failing.
ExitPollFails ==
    /\ pc = "exit"
    /\ UNCHANGED unitVars
    /\ venueFaults # "none"
    /\ \E expired \in Expirable(killswitch, venueFaults) :
           killswitch' = RecordFailure(killswitch, expired)
    /\ log' = "exit_check_failed"
    /\ decided' = NoDecision
    /\ emitted' = {}
    /\ transitions' = <<>>
    /\ IF idx < Len(exitKeys)
       THEN pc' = "exit" /\ idx' = idx + 1 /\ UNCHANGED exitKeys
       ELSE pc' = AfterExits(positions) /\ idx' = 1 /\ exitKeys' = <<>>
    /\ UNCHANGED <<deployment, opportunities, allocations, positions,
                   ctxState, engine, portfolio, store>>

\* One iteration of the exit loop (351-358): evaluate, and execute_exit on an
\* exit decision.
ExitCheck ==
    /\ pc = "exit"
    /\ UNCHANGED unitVars
    /\ \E r \in deployment.rates[exitKeys[idx]] :
         LET sym == exitKeys[idx]
             ev  == Evaluate(engine, sym, r[1], r[2], order_notional)
         IN  /\ engine' = ev.open
             /\ decided' = ev.decision
             /\ IF ev.decision.action = "exit"
                THEN \E o \in ExitOutcomes(venueFaults), expired \in Expirable(killswitch, venueFaults) :
                       LET e == ExitEffect(sym, o, expired)
                       IN  /\ positions' = e.positions
                           /\ portfolio' = e.portfolio
                           /\ store' = e.store
                           /\ killswitch' = e.killswitch
                           /\ emitted' = e.emitted
                           /\ log' = e.log
                           /\ transitions' = e.transitions
                           /\ ctxState' = IF e.transitions = <<>> THEN ctxState
                                          ELSE e.transitions[Len(e.transitions)]
                ELSE /\ log' = "exit_check"
                     /\ emitted' = {}
                     /\ transitions' = <<>>
                     /\ UNCHANGED <<positions, portfolio, store, killswitch, ctxState>>
    /\ IF idx < Len(exitKeys)
       THEN pc' = "exit" /\ idx' = idx + 1 /\ UNCHANGED exitKeys
       ELSE pc' = AfterExits(positions') /\ idx' = 1 /\ exitKeys' = <<>>
    /\ UNCHANGED <<deployment, opportunities, allocations>>

(***************************************************************************)
(* Rebalancer (execution/rebalance.py) and check_and_rebalance             *)
(* (main.py 366-395).                                                      *)
(***************************************************************************)
drift_threshold_bps == 50

NoPosition == [present |-> FALSE, side |-> "buy", size |-> 0]

LighterPositions == {NoPosition, [present |-> TRUE, side |-> "buy", size |-> 100]}

HlPositions == {NoPosition, [present |-> TRUE, side |-> "sell", size |-> 100],
                [present |-> TRUE, side |-> "sell", size |-> 98]}

Signed(p) == IF p.side = "buy" THEN p.size ELSE -p.size

DetectDrift(lighter_pos, hl_pos) ==
    LET total_exposure == Signed(lighter_pos) + Signed(hl_pos)
        sum2 == Abs(Signed(lighter_pos)) + Abs(Signed(hl_pos))   \* 2 * avg_size
    IN  IF ~lighter_pos.present \/ ~hl_pos.present \/ sum2 = 0
        THEN [detected |-> FALSE, total_exposure |-> 0, drift_quantity |-> 0,
              needs_rebalance |-> FALSE]
        ELSE [detected |-> TRUE, total_exposure |-> total_exposure,
              drift_quantity |-> Abs(total_exposure),
              needs_rebalance |->
                  Abs(total_exposure) * 10000 * 2 >= drift_threshold_bps * sum2]

PlanRebalanceReversed(drift) ==
    [exchange |-> "hyperliquid",
     side |-> IF drift.total_exposure > 0 THEN "buy" ELSE "sell",
     quantity |-> drift.drift_quantity]

PlanRebalance(drift) ==
    [exchange |-> "hyperliquid",
     side |-> IF drift.total_exposure > 0 THEN "sell" ELSE "buy",
     quantity |-> drift.drift_quantity]

RebalanceInputs(faults) ==
    CASE faults = "none" -> {<<[present |-> TRUE, side |-> "buy", size |-> 100],
                               [present |-> TRUE, side |-> "sell", size |-> 100], "ok">>}
      [] faults = "some" -> {<<[present |-> TRUE, side |-> "buy", size |-> 100],
                               [present |-> TRUE, side |-> "sell", size |-> 98], "ok">>}
      [] faults = "all" -> LighterPositions \X HlPositions \X {"ok", "price_failed"}

\* The symbols check_and_rebalance places a rebalance order for.
Rebalanced(open, inp) ==
    {s \in DOMAIN open :
        /\ DetectDrift(inp[s][1], inp[s][2]).detected
        /\ DetectDrift(inp[s][1], inp[s][2]).needs_rebalance
        /\ inp[s][3] = "ok"}

\* `if context.positions: await check_and_rebalance()` (360-362)
CheckAndRebalance ==
    /\ pc = "rebalance"
    /\ UNCHANGED unitVars
    /\ \/ /\ venueFaults = "all"
          /\ pc' = "crashed"
          /\ log' = "uncaught_exception"
          /\ emitted' = {}
       \/ \E inp \in [DOMAIN portfolio -> RebalanceInputs(venueFaults)] :
            /\ pc' = "top"
            /\ emitted' = {Intent("rebalance", s, "limit") : s \in Rebalanced(portfolio, inp)}
            /\ log' = "rebalance_checked"
    /\ decided' = NoDecision
    /\ transitions' = <<>>
    /\ UNCHANGED <<deployment, idx, opportunities, allocations, exitKeys,
                   positions, ctxState, engine, portfolio, store, killswitch>>

Next ==
    \/ TickStart
    \/ PollFails
    \/ PollSnapshot
    \/ ExecuteEntry
    \/ ExitPollFails
    \/ ExitCheck
    \/ CheckAndRebalance
    \/ Restart

Spec == Init /\ [][Next]_vars

\* One run of the controller loop: the process is not restarted, every awaited
\* call returns, and the event loop keeps scheduling the coroutine.
Run ==
    \/ TickStart
    \/ PollFails
    \/ PollSnapshot
    \/ ExecuteEntry
    \/ ExitPollFails
    \/ ExitCheck
    \/ CheckAndRebalance

RunSpec == Init /\ [][Run]_vars /\ WF_vars(Run)

(***************************************************************************)
(* Strategy Engine called on its own: a sequence of snapshots of two       *)
(* symbols, given to one StrategyEngine.                                   *)
(***************************************************************************)
SnapshotSymbols == {"A", "B"}

\* funding rates in bps, on and next to the two thresholds
SnapshotRates == {0, 5, 6, 19, 20, 40}

EngineEvaluate ==
    /\ \E sym \in SnapshotSymbols, hl \in SnapshotRates, lg \in SnapshotRates :
         LET ev == Evaluate(engine, sym, hl, lg, order_notional)
         IN  /\ call' = [op |-> "evaluate", symbol |-> sym, hyperliquid_rate_bps |-> hl,
                         lighter_rate_bps |-> lg]
             /\ engine' = ev.open
             /\ decided' = ev.decision
             /\ ret' = ev.decision
    /\ UNCHANGED <<deployment, pc, idx, opportunities, allocations, exitKeys, positions,
                   ctxState, portfolio, store, killswitch, log, emitted, transitions>>

EngineSpec == Init /\ [][EngineEvaluate]_vars

\* execute_entry: the sides of the two legs (main.py 439-440); lighter is the
\* primary venue, hyperliquid the hedge venue
PrimarySide(direction) == IF direction = "long_lighter_short_hl" THEN "buy" ELSE "sell"

HedgeSideSame(primary_side) == primary_side

HedgeSide(primary_side) == IF primary_side = "buy" THEN "sell" ELSE "buy"

(***************************************************************************)
(* Kill Switch called on its own (infra/killswitch.py), with the times of  *)
(* its failures: the kill switch record carries failure_timestamps, and    *)
(* each call is made at a time `now` that never runs backwards.            *)
(***************************************************************************)
\* one hour (the 3600 seconds of the prune), in ticks of the clock
HOUR == 2

MaxClock == 4

MaxConsecutive == 4

MaxWindow == 11

TimedKillSwitch == NewKillSwitch @@ [failure_timestamps |-> <<>>]

PrevNow == IF call.op = "none" THEN 0 ELSE call.now

Times == {t \in 0..MaxClock : t >= PrevNow}

\* failure_timestamps after the append and the prune of record_failure
Pruned(failure_timestamps, now) ==
    SelectSeq(Append(failure_timestamps, now), LAMBDA ts : ts > now - HOUR)

\* record_failure at time now
RecordFailureAt(ks, now) ==
    LET kept == Pruned(ks.failure_timestamps, now)
        expired == Len(ks.failure_timestamps) + 1 - Len(kept)
    IN  RecordFailure(ks, expired) @@ [failure_timestamps |-> kept]

\* trip(reason)
Trip(ks) == [ks EXCEPT !.is_tripped = TRUE]

\* reset()
Reset(ks) == [ks EXCEPT !.is_tripped = FALSE, !.consecutive_failures = 0]

KsFrame ==
    UNCHANGED <<deployment, pc, idx, opportunities, allocations, exitKeys, positions,
                ctxState, engine, portfolio, store, log, emitted, decided, transitions>>

KsRecordFailure ==
    /\ killswitch.consecutive_failures < MaxConsecutive
    /\ Len(killswitch.failure_timestamps) < MaxWindow
    /\ \E now \in Times :
         /\ call' = [op |-> "record_failure", now |-> now]
         /\ killswitch' = RecordFailureAt(killswitch, now)
         /\ ret' = [tripped |->
                        \/ killswitch'.consecutive_failures >= max_consecutive_failures
                        \/ Len(killswitch'.failure_timestamps) >= max_total_failures_per_hour]
    /\ KsFrame

KsRecordSuccess ==
    /\ \E now \in Times : call' = [op |-> "record_success", now |-> now]
    /\ killswitch' = RecordSuccess(killswitch)
    /\ ret' = NoCall
    /\ KsFrame

KsTrip ==
    /\ \E now \in Times : call' = [op |-> "trip", now |-> now]
    /\ killswitch' = Trip(killswitch)
    /\ ret' = NoCall
    /\ KsFrame

KsReset ==
    /\ \E now \in Times : call' = [op |-> "reset", now |-> now]
    /\ killswitch' = Reset(killswitch)
    /\ ret' = NoCall
    /\ KsFrame

KsInit ==
    /\ deployment \in Deployments
    /\ pc = "top"
    /\ idx = 1
    /\ opportunities = <<>>
    /\ allocations = <<>>
    /\ exitKeys = <<>>
    /\ positions = <<>>
    /\ ctxState = "idle"
    /\ engine = EmptyMap
    /\ portfolio = EmptyMap
    /\ store = NoFile
    /\ killswitch = TimedKillSwitch
    /\ log = "bot.initialized"
    /\ emitted = {}
    /\ decided = NoDecision
    /\ transitions = <<>>
    /\ call = NoCall
    /\ ret = NoCall

KsNext == KsRecordFailure \/ KsRecordSuccess \/ KsTrip \/ KsReset

KsSpec == KsInit /\ [][KsNext]_vars

(***************************************************************************)
(* Rebalancer called on its own: detect_drift on a pair of venue           *)
(* positions, then plan_rebalance on the drift it returns.                 *)
(***************************************************************************)
PositionSizes == {0, 1, 2, 98, 100, 102}

VenuePositions ==
    [present : {TRUE}, side : {"buy", "sell"}, size : PositionSizes]

PlanDrift ==
    /\ call = NoCall
    /\ \E lighter_pos \in VenuePositions, hl_pos \in VenuePositions :
         LET drift == DetectDrift(lighter_pos, hl_pos)
         IN  /\ call' = [op |-> "plan_rebalance", lighter_pos |-> lighter_pos,
                         hl_pos |-> hl_pos]
             /\ ret' = [drift |-> drift,
                        action |-> IF drift.detected THEN PlanRebalance(drift)
                                   ELSE [exchange |-> "-", side |-> "-", quantity |-> 0]]
    /\ UNCHANGED loopVars

RebalanceSpec == Init /\ [][PlanDrift]_vars

\* check_and_rebalance (main.py 366-395) for one open symbol: the positions
\* the two venues report for it (None when a venue lists none) and the reply
\* to the price fetch; submitted tells whether execute_rebalance was called.
CheckDrift ==
    /\ call = NoCall
    /\ \E lighter_pos \in VenuePositions \cup {NoPosition},
          hl_pos \in VenuePositions \cup {NoPosition},
          prices \in {"ok", "price_failed"} :
         LET drift == DetectDrift(lighter_pos, hl_pos)
             inp == [s \in {"A"} |-> <<lighter_pos, hl_pos, prices>>]
         IN  /\ call' = [op |-> "check_and_rebalance", symbol |-> "A",
                         lighter_pos |-> lighter_pos, hl_pos |-> hl_pos,
                         prices |-> prices]
             /\ ret' = [drift |-> drift,
                        submitted |-> "A" \in Rebalanced(inp, inp)]
    /\ UNCHANGED loopVars

DriftSpec == Init /\ [][CheckDrift]_vars

(***************************************************************************)
(* Position Store called on its own (infra/persistence.py): a caller that  *)
(* holds a positions map saves it and loads the file.                      *)
(***************************************************************************)
MaxSaves == 2

StoredPositions ==
    [size : {1000, 2000},
     direction : {"long_hl_short_lighter", "long_lighter_short_hl"},
     lighter_filled : {100}, hl_filled : {100}, is_balanced : BOOLEAN]

\* well-formed maps over the symbols A and B, in either insertion order
PositionMaps ==
    {<<>>}
    \cup {<<[k |-> s, v |-> r]>> : s \in {"A", "B"}, r \in StoredPositions}
    \cup {<<[k |-> s, v |-> r], [k |-> t, v |-> q]>> :
             s \in {"A"}, t \in {"B"}, r \in StoredPositions, q \in StoredPositions}
    \cup {<<[k |-> s, v |-> r], [k |-> t, v |-> q]>> :
             s \in {"B"}, t \in {"A"}, r \in StoredPositions, q \in StoredPositions}

Saves == IF call.op = "none" THEN 0 ELSE call.saves

StoreFrame ==
    UNCHANGED <<deployment, pc, idx, opportunities, allocations, exitKeys, ctxState,
                engine, portfolio, killswitch, log, emitted, decided, transitions>>

StoreSave ==
    /\ Saves < MaxSaves
    /\ \E m \in PositionMaps :
         /\ positions' = m
         /\ store' = Save(m)
    /\ call' = [op |-> "save", saves |-> Saves + 1]
    /\ ret' = NoCall
    /\ StoreFrame

StoreLoad ==
    /\ call' = [op |-> "load", saves |-> Saves]
    /\ ret' = [op |-> "load", value |-> Load(store)]
    /\ UNCHANGED <<positions, store>>
    /\ StoreFrame

StoreNext == StoreSave \/ StoreLoad

StoreSpec == Init /\ [][StoreNext]_vars

(***************************************************************************)
(* Reconnecting stream (infra/reconnect.py resilient_stream), one consumer *)
(* reading it.  call holds the generator's locals: retry_count, where it   *)
(* stands, and two counts kept for the properties: factory_calls and       *)
(* failures, the exceptions since the last item.  ret is what the last     *)
(* step did.                                                               *)
(***************************************************************************)
MaxRetries == 7

MaxConnects == 9

RECURSIVE Pow2(_)
Pow2(n) == IF n = 0 THEN 1 ELSE 2 * Pow2(n - 1)

\* line 54
wait_seconds(retry_count) == Min(Pow2(retry_count), 60)

OnItemKeepsCount(gen) == [gen EXCEPT !.failures = 0]

\* lines 38-40: an item resets retry_count and is yielded
OnItem(gen) == [gen EXCEPT !.retry_count = 0, !.failures = 0]

\* lines 42-56: count the exception, raise at max_retries, else sleep and
\* go round the while loop
OnException(gen) ==
    [gen EXCEPT !.retry_count = gen.retry_count + 1,
                !.failures = gen.failures + 1,
                !.at = IF gen.retry_count + 1 >= gen.max_retries
                       THEN "raised" ELSE "loop"]

OnEndCountsRetry(gen) ==
    [gen EXCEPT !.retry_count = gen.retry_count + 1,
                !.at = IF gen.retry_count + 1 >= gen.max_retries
                       THEN "raised" ELSE "loop"]

\* line 38 exhausted without an exception: control falls to the end of the
\* try block and back to the while test of line 33, retry_count as it was
OnEnd(gen) == [gen EXCEPT !.at = "loop"]

StreamFrame ==
    UNCHANGED loopVars

\* the consumer starts the generator: retry_count = 0 (line 31)
StreamStart ==
    /\ call = NoCall
    /\ \E m \in 1..MaxRetries :
         call' = [op |-> "resilient_stream", max_retries |-> m, retry_count |-> 0,
                  at |-> "loop", factory_calls |-> 0, failures |-> 0]
    /\ ret' = [op |-> "start"]
    /\ StreamFrame

\* lines 33-36: while retry_count < max_retries, stream_factory()
StreamConnect ==
    /\ call.op = "resilient_stream"
    /\ call.at = "loop"
    /\ call.retry_count < call.max_retries
    /\ call.factory_calls < MaxConnects
    /\ call' = [call EXCEPT !.at = "iter", !.factory_calls = call.factory_calls + 1]
    /\ ret' = [op |-> "connect"]
    /\ StreamFrame

StreamItem ==
    /\ call.op = "resilient_stream"
    /\ call.at = "iter"
    /\ call' = OnItem(call)
    /\ ret' = [op |-> "yield"]
    /\ StreamFrame

\* the factory or the stream raises
StreamException ==
    /\ call.op = "resilient_stream"
    /\ call.at = "iter"
    /\ call' = OnException(call)
    /\ ret' = IF call'.at = "raised" THEN [op |-> "raise"]
              ELSE [op |-> "sleep", wait_seconds |-> wait_seconds(call'.retry_count)]
    /\ StreamFrame

\* the stream ends without an exception: the while loop goes round
StreamEnd ==
    /\ call.op = "resilient_stream"
    /\ call.at = "iter"
    /\ call' = OnEnd(call)
    /\ ret' = [op |-> "end"]
    /\ StreamFrame

StreamNext ==
    StreamStart \/ StreamConnect \/ StreamItem \/ StreamException \/ StreamEnd

StreamSpec == Init /\ [][StreamNext]_vars

(***************************************************************************)
(* retry_api_call (infra/reconnect.py 59-77) as poll_funding uses it       *)
(* (main.py 280-294).  The argument is an awaitable that was created once  *)
(* by the caller: generator.__anext__().  tenacity calls the wrapped       *)
(* function again with the same argument, and awaiting an awaitable that   *)
(* has already run raises RuntimeError.  A venue script is what the venue  *)
(* would answer to its first, second and third request.                    *)
(***************************************************************************)
stop_after_attempt == 3

Transport == {"ConnectionError", "TimeoutError", "OSError"}

VenueAnswers == {"ok", "ConnectionError", "TimeoutError", "OSError", "ValueError"}

VenueScripts == [1..stop_after_attempt -> VenueAnswers]

\* funding_stream([symbol]).__anext__(): not yet awaited
NewAwaitable(script) == [awaited |-> FALSE, requests |-> 0, script |-> script]

\* await coro: the first await runs the request, a later one raises
Await(coro) ==
    IF coro.awaited
    THEN [coro |-> coro, outcome |-> "RuntimeError"]
    ELSE [coro |-> [coro EXCEPT !.awaited = TRUE, !.requests = coro.requests + 1],
          outcome |-> coro.script[coro.requests + 1]]

\* retry_if_exception_type((ConnectionError, TimeoutError, OSError))
Retried(outcome) == outcome \in Transport

\* the tenacity loop: attempt, retry on a transport error until
\* stop_after_attempt, reraise the last exception
RECURSIVE RetryApiCall(_, _)
RetryApiCall(coro, attempt_number) ==
    LET a == Await(coro)
    IN  IF Retried(a.outcome) /\ attempt_number < stop_after_attempt
        THEN RetryApiCall(a.coro, attempt_number + 1)
        ELSE [outcome |-> a.outcome, attempts |-> attempt_number,
              requests |-> a.coro.requests]

NotCalled == [outcome |-> "not_called", attempts |-> 0, requests |-> 0]

\* poll_funding(symbol): the Hyperliquid rate, then the Lighter rate; any
\* exception is recorded in the kill switch and raised again
PollFunding ==
    /\ call = NoCall
    /\ \E symbol \in {tracked_symbols[i] : i \in 1..Len(tracked_symbols)},
          hl_script \in VenueScripts, lg_script \in VenueScripts :
         LET hl == RetryApiCall(NewAwaitable(hl_script), 1)
             lg == IF hl.outcome = "ok"
                   THEN RetryApiCall(NewAwaitable(lg_script), 1) ELSE NotCalled
             raised == IF hl.outcome # "ok" THEN hl.outcome
                       ELSE IF lg.outcome # "ok" THEN lg.outcome ELSE "none"
         IN  /\ call' = [op |-> "poll_funding", symbol |-> symbol,
                         hl_script |-> hl_script, lg_script |-> lg_script]
             /\ ret' = [op |-> IF raised = "none" THEN "return" ELSE "raise",
                        error |-> raised, hyperliquid |-> hl, lighter |-> lg]
             /\ killswitch' = IF raised = "none" THEN killswitch
                              ELSE RecordFailure(killswitch, 0)
    /\ KsFrame

RetrySpec == Init /\ [][PollFunding]_vars

(***************************************************************************)
(* Sizing (execution/sizing.py calculate_quantity).  Quantities and lot    *)
(* sizes are exact, in thousandths of a unit; a returned quantity is the   *)
(* fraction num/den.  The code computes in binary floating point, whose    *)
(* rounding is not modelled.                                               *)
(***************************************************************************)
QtyScale == 1000

Notionals == {-1000, 0, 1, 999, 1000, 2000}

MidPrices == {-1, 0, 1, 3, 7, 2000}

LotSizes == {0, 1, 10, 500}

\* math.floor(x / y) for y > 0
Floor(x, y) == x \div y

CalculateQuantityRounded(notional_usd, mid_price, lot_size) ==
    IF mid_price <= 0
    THEN [op |-> "raise", error |-> "ValueError"]
    ELSE IF lot_size > 0
         THEN [op |-> "return",
               num |-> Floor(2 * notional_usd * QtyScale + mid_price * lot_size,
                             2 * mid_price * lot_size) * lot_size,
               den |-> QtyScale]
         ELSE [op |-> "return", num |-> notional_usd, den |-> mid_price]

\* lines 36-47: raw_quantity = notional_usd / mid_price, rounded down to the
\* lot size when there is one
CalculateQuantity(notional_usd, mid_price, lot_size) ==
    IF mid_price <= 0
    THEN [op |-> "raise", error |-> "ValueError"]
    ELSE IF lot_size > 0
         THEN [op |-> "return",
               num |-> Floor(notional_usd * QtyScale, mid_price * lot_size) * lot_size,
               den |-> QtyScale]
         ELSE [op |-> "return", num |-> notional_usd, den |-> mid_price]

SizeOrder ==
    /\ call = NoCall
    /\ \E notional_usd \in Notionals, mid_price \in MidPrices, lot_size \in LotSizes :
         /\ call' = [op |-> "calculate_quantity", notional_usd |-> notional_usd,
                     mid_price |-> mid_price, lot_size |-> lot_size]
         /\ ret' = CalculateQuantity(notional_usd, mid_price, lot_size)
    /\ UNCHANGED loopVars

SizingSpec == Init /\ [][SizeOrder]_vars

(***************************************************************************)
(* Portfolio Manager called on its own: one allocate over the enter        *)
(* decisions of a tick, in the order the caller lists them, on an open map *)
(* with at most one position.                                              *)
(***************************************************************************)
CandidateEdges == {20, 40, -40}

EnterDecision(sym, edge) ==
    [symbol |-> sym, edge_bps |-> edge, direction |-> Direction(edge),
     size |-> order_notional, action |-> "enter"]

\* lists of one to three decisions for distinct symbols
CandidateLists ==
    {<<EnterDecision(s, e)>> : s \in {"A", "B", "C"}, e \in CandidateEdges}
    \cup {<<EnterDecision(s[1], e[1]), EnterDecision(s[2], e[2])>> :
             s \in {x \in {"A", "B", "C"} \X {"A", "B", "C"} : x[1] # x[2]},
             e \in CandidateEdges \X CandidateEdges}
    \cup {<<EnterDecision(s[1], e[1]), EnterDecision(s[2], e[2]),
            EnterDecision(s[3], e[3])>> :
             s \in {x \in {"A", "B", "C"} \X {"A", "B", "C"} \X {"A", "B", "C"} :
                       x[1] # x[2] /\ x[1] # x[3] /\ x[2] # x[3]},
             e \in CandidateEdges \X CandidateEdges \X CandidateEdges}

OpenMaps ==
    {EmptyMap} \cup {RegisterPosition(EmptyMap, s, order_notional) : s \in {"A", "B", "C"}}

AllocateCall ==
    /\ call = NoCall
    /\ \E opps \in CandidateLists, open \in OpenMaps :
         /\ call' = [op |-> "allocate", opportunities |-> opps, open |-> open]
         /\ ret' = [op |-> "allocate", allocations |-> Allocate(opps, open)]
    /\ UNCHANGED loopVars

AllocSpec == Init /\ [][AllocateCall]_vars

(***************************************************************************)
(* PnL ledger (infra/pnl.py).  call is the PnLTracker of the running       *)
(* process with the clock its timestamps come from, ret the state file     *)
(* .pnl_state.json it leaves on disk.                                      *)
(***************************************************************************)
MaxLedger == 3

NoLedgerFile ==
    [op |-> "file", exists |-> FALSE, trades |-> <<>>, funding_payments |-> <<>>,
     total_fees |-> 0, total_funding |-> 0]

LedgerFile == IF ret = NoCall THEN NoLedgerFile ELSE ret

\* _load_state (231-243): the three totals are read, the two lists are not
LoadState(file) ==
    [total_fees |-> IF file.exists THEN file.total_fees ELSE 0,
     total_funding |-> IF file.exists THEN file.total_funding ELSE 0]

\* PnLTracker(state_file) (57-64)
NewTracker(file, clock) ==
    [op |-> "pnl", clock |-> clock, trades |-> <<>>, funding_payments |-> <<>>,
     total_fees |-> LoadState(file).total_fees,
     total_funding |-> LoadState(file).total_funding]

Tracker == IF call = NoCall THEN NewTracker(NoLedgerFile, 0) ELSE call

\* _save_state (194-229): the whole state of the tracker replaces the file
SaveState(tracker) ==
    [op |-> "file", exists |-> TRUE, trades |-> tracker.trades,
     funding_payments |-> tracker.funding_payments,
     total_fees |-> tracker.total_fees, total_funding |-> tracker.total_funding]

\* record_trade (66-89)
LedgerRecordTrade ==
    /\ Tracker.op = "pnl"
    /\ Tracker.clock < MaxLedger
    /\ \E symbol \in SnapshotSymbols, fee \in {1, 2} :
         call' = [Tracker EXCEPT
                    !.clock = @ + 1,
                    !.trades = Append(@, [timestamp |-> Tracker.clock + 1,
                                          symbol |-> symbol, fee |-> fee]),
                    !.total_fees = @ + fee]
    /\ ret' = SaveState(call')
    /\ UNCHANGED loopVars

\* record_funding (103-122)
LedgerRecordFunding ==
    /\ Tracker.op = "pnl"
    /\ Tracker.clock < MaxLedger
    /\ \E symbol \in SnapshotSymbols, payment_usd \in {-1, 1} :
         call' = [Tracker EXCEPT
                    !.clock = @ + 1,
                    !.funding_payments =
                        Append(@, [timestamp |-> Tracker.clock + 1, symbol |-> symbol,
                                   payment_usd |-> payment_usd]),
                    !.total_funding = @ + payment_usd]
    /\ ret' = SaveState(call')
    /\ UNCHANGED loopVars

\* the process starts again: a new PnLTracker over the file (main.py 265)
LedgerRestart ==
    /\ Tracker.op = "pnl"
    /\ call' = NewTracker(LedgerFile, Tracker.clock)
    /\ ret' = LedgerFile
    /\ UNCHANGED loopVars

LedgerNext == LedgerRecordTrade \/ LedgerRecordFunding \/ LedgerRestart

LedgerSpec == Init /\ [][LedgerNext]_vars

(***************************************************************************)
(* Execution Router called on its own (execution/router.py), with the      *)
(* reconciler it calls (execution/reconciliation.py).  The venues' replies *)
(* to the calls of one execute are its input.                              *)
(***************************************************************************)
FillSizes == {0, 98, 99, 100, 101}

OrderIds == {"o1", "o2"}

Raised == [raises |-> TRUE, filled_size |-> 0, exchange_order_id |-> "-"]

\* replies to place_order in the parallel attempt
PlaceReplies ==
    {Raised} \cup {[raises |-> FALSE, filled_size |-> f, exchange_order_id |-> id] :
                      f \in FillSizes, id \in OrderIds}

\* replies to place_order in the sequential re-attempt
RetryReplies ==
    {Raised} \cup {[raises |-> FALSE, filled_size |-> f, exchange_order_id |-> id] :
                      f \in {98, 100}, id \in OrderIds}

\* primary_result or hedge_result still None
NoResult == [raises |-> FALSE, filled_size |-> 0, exchange_order_id |-> "None"]

RouterReplies ==
    [par_primary : PlaceReplies, par_hedge : PlaceReplies,
     seq_primary : RetryReplies, seq_hedge : RetryReplies,
     cancel : {"ok", "raises"}, correction : {"ok", "raises"}]

\* DualLegIntent with the sizes of its two legs
\* and their sides, the primary leg selling (main.py 439-440)
TestIntent ==
    [symbol |-> "A", leg_a_side |-> "sell", leg_a_size |-> 100,
     leg_b_side |-> "buy", leg_b_size |-> 100]

PlaceCall(venue, order, side, size) ==
    [venue |-> venue, op |-> "place_order", order |-> order, side |-> side,
     size |-> size]

CancelCall(venue, exchange_order_id) ==
    [venue |-> venue, op |-> "cancel_order", order |-> exchange_order_id,
     side |-> "-", size |-> 0]

\* check_fills(primary_result, hedge_result, intended_primary, intended_hedge, 0.02)
CheckFills(primary_filled, hedge_filled, intended_primary, intended_hedge) ==
    LET imbalance == Abs(primary_filled - hedge_filled)
        needs_correction == NeedsCorrection(primary_filled, hedge_filled)
    IN  [primary_filled |-> primary_filled,
         hedge_filled |-> hedge_filled,
         imbalance |-> imbalance,
         needs_correction |-> needs_correction,
         correction_side |->
             IF ~needs_correction THEN "none"
             ELSE IF primary_filled > hedge_filled
                  THEN IF hedge_filled < intended_hedge THEN "buy" ELSE "sell"
                  ELSE IF primary_filled < intended_primary THEN "buy" ELSE "sell",
         correction_size |-> IF needs_correction THEN imbalance ELSE 0]

\* the target execute passes to apply_correction (router.py 75-78)
CorrectionTarget(reconciliation) ==
    IF reconciliation.primary_filled > reconciliation.hedge_filled
    THEN "hedge" ELSE "primary"

\* apply_correction: the makeup order placed on the target venue
ApplyCorrection(reconciliation, target) ==
    <<PlaceCall(target, "correction", reconciliation.correction_side,
                reconciliation.correction_size)>>

AttemptCancelPropagates(cancel_reply) == cancel_reply = "raises"

\* _attempt_cancel: does the error of cancel_order leave it?  (except Exception: pass)
AttemptCancelRaises(cancel_reply) == FALSE

\* _handle_failure: the sequential re-attempt; the leg and the results of the
\* ExecutionError it raises, or "cancel_error" when another exception leaves it.
HandleFailure(intent, env) ==
    LET primary == PlaceCall("primary", "leg_a", intent.leg_a_side, intent.leg_a_size)
        hedge   == PlaceCall("hedge", "leg_b", intent.leg_b_side, intent.leg_b_size)
    IN  IF env.seq_primary.raises
        THEN [calls |-> <<primary>>, raised |-> "primary",
              results |-> <<NoResult, NoResult>>]
        ELSE IF env.seq_hedge.raises
        THEN [calls |-> <<primary, hedge,
                          CancelCall("primary", env.seq_primary.exchange_order_id)>>,
              raised |-> IF AttemptCancelRaises(env.cancel)
                         THEN "cancel_error" ELSE "hedge",
              results |-> <<env.seq_primary, NoResult>>]
        ELSE [calls |-> <<primary, hedge>>, raised |-> "parallel",
              results |-> <<env.seq_primary, env.seq_hedge>>]

\* ExecutionRouter.execute(intent) with auto_reconcile=True
RouterExecute(intent, env) ==
    LET gather == <<PlaceCall("primary", "leg_a", intent.leg_a_side, intent.leg_a_size),
                    PlaceCall("hedge", "leg_b", intent.leg_b_side, intent.leg_b_size)>>
    IN  IF env.par_primary.raises \/ env.par_hedge.raises
        THEN LET f == HandleFailure(intent, env)
             IN  [calls |-> gather \o f.calls, raised |-> f.raised,
                  results |-> f.results,
                  primary_filled |-> 0, hedge_filled |-> 0,
                  needs_correction |-> FALSE, is_balanced |-> FALSE, imbalance |-> 0]
        ELSE LET reconciliation ==
                     CheckFills(env.par_primary.filled_size, env.par_hedge.filled_size,
                                intent.leg_a_size, intent.leg_b_size)
                 makeup == IF reconciliation.needs_correction
                           THEN ApplyCorrection(reconciliation,
                                                CorrectionTarget(reconciliation))
                           ELSE <<>>
             IN  [calls |-> gather \o makeup, raised |-> "none",
                  results |-> <<env.par_primary, env.par_hedge>>,
                  primary_filled |-> env.par_primary.filled_size,
                  hedge_filled |-> env.par_hedge.filled_size,
                  needs_correction |-> reconciliation.needs_correction,
                  is_balanced |-> ~reconciliation.needs_correction,
                  imbalance |-> reconciliation.imbalance]

\* One execute on a router that holds no state between calls.
Execute ==
    /\ call = NoCall
    /\ \E env \in RouterReplies :
         /\ call' = [op |-> "execute", intent |-> TestIntent, env |-> env]
         /\ ret' = RouterExecute(TestIntent, env)
    /\ UNCHANGED loopVars

RouterSpec == Init /\ [][Execute]_vars

(***************************************************************************)
(* execute_entry from the call of the router on (main.py 484-536), on the  *)
(* router above: what the controller does with the ExecutionResult or the  *)
(* ExecutionError of one entry.                                            *)
(***************************************************************************)
TestDecision ==
    [symbol |-> "A", edge_bps |-> 40, direction |-> Direction(40),
     size |-> order_notional, action |-> "enter"]

\* the ExecutionResult, or the ExecutionError caught at 534
RouterOutcome(result) ==
    IF result.raised = "none"
    THEN Outcome("filled", "-", result.primary_filled, result.hedge_filled, "limit")
    ELSE Outcome("exec_error", result.raised, 0, 0, "limit")

EntryExecute ==
    /\ call = NoCall
    /\ \E env \in RouterReplies :
         LET result == RouterExecute(TestIntent, env)
             e == EntryEffect(TestIntent.symbol, TestDecision, RouterOutcome(result), 0)
         IN  /\ call' = [op |-> "execute_entry", intent |-> TestIntent, env |-> env]
             /\ ret' = result
             /\ positions' = e.positions
             /\ portfolio' = e.portfolio
             /\ store' = e.store
             /\ killswitch' = e.killswitch
             /\ log' = e.log
             /\ transitions' = e.transitions
             /\ ctxState' = e.transitions[Len(e.transitions)]
    /\ UNCHANGED <<deployment, pc, idx, opportunities, allocations, exitKeys, engine,
                   emitted, decided>>

EntrySpec == Init /\ [][EntryExecute]_vars

(***************************************************************************)
(* The orders of router.execute in flight (router.py 44-51, 89-102), for   *)
(* the operations the controller starts one after the other.  The two      *)
(* place_order calls of asyncio.gather run together; gather raises as soon *)
(* as one of them raises and leaves the other running, and _handle_failure *)
(* then places the legs again one by one.  call holds the controller's     *)
(* position in execute and the set of orders the venues have not answered. *)
(***************************************************************************)
MaxIntents == 2

Order(intent, sym, venue, attempt) ==
    [intent |-> intent, symbol |-> sym, venue |-> venue, attempt |-> attempt]

Idle == [op |-> "dispatch", at |-> "idle", intent |-> 0, symbol |-> "-",
         in_flight |-> {}, answered |-> {}]

Dispatch == IF call = NoCall THEN Idle ELSE call

\* await router.execute(intent): gather submits both legs (45-49)
DispatchBegin ==
    /\ Dispatch.op = "dispatch"
    /\ Dispatch.at = "idle"
    /\ Dispatch.intent < MaxIntents
    /\ \E sym \in SnapshotSymbols :
         LET n == Dispatch.intent + 1
         IN  call' = [Dispatch EXCEPT
                        !.at = "gather", !.intent = n, !.symbol = sym,
                        !.in_flight = @ \cup {Order(n, sym, "primary", "parallel"),
                                              Order(n, sym, "hedge", "parallel")},
                        !.answered = {}]
    /\ ret' = [op |-> "submitted"]
    /\ UNCHANGED loopVars

\* what execute does when the venue answers order o with a result or an exception
AfterAnswer(d, o, raises) ==
    LET rest == d.in_flight \ {o}
        mine == o.intent = d.intent
    IN  IF ~mine THEN [d EXCEPT !.in_flight = rest]
        ELSE IF d.at = "gather" /\ o.attempt = "parallel"
        THEN IF raises
             THEN [d EXCEPT !.at = "seq_primary",
                            !.in_flight = rest \cup {Order(d.intent, d.symbol,
                                                           "primary", "sequential")}]
             ELSE IF d.answered = {}
                  THEN [d EXCEPT !.in_flight = rest, !.answered = {o.venue}]
                  ELSE [d EXCEPT !.in_flight = rest, !.at = "idle"]
        ELSE IF d.at = "seq_primary" /\ o.attempt = "sequential"
        THEN IF raises
             THEN [d EXCEPT !.in_flight = rest, !.at = "idle"]
             ELSE [d EXCEPT !.at = "seq_hedge",
                            !.in_flight = rest \cup {Order(d.intent, d.symbol,
                                                           "hedge", "sequential")}]
        ELSE IF d.at = "seq_hedge" /\ o.attempt = "sequential"
        THEN [d EXCEPT !.in_flight = rest, !.at = "idle"]
        ELSE [d EXCEPT !.in_flight = rest]

\* a venue answers one of the orders in flight
DispatchAnswer ==
    /\ Dispatch.op = "dispatch"
    /\ \E o \in Dispatch.in_flight, raises \in BOOLEAN :
         /\ call' = AfterAnswer(Dispatch, o, raises)
         /\ ret' = [op |-> IF raises THEN "raised" ELSE "result"]
    /\ UNCHANGED loopVars

DispatchNext == DispatchBegin \/ DispatchAnswer

DispatchSpec == Init /\ [][DispatchNext]_vars

(***************************************************************************)
(* execute_entry up to the intent (main.py 397-470) and execute_exit up to *)
(* the intent (538-597), each followed by a router that either fills both  *)
(* legs in full or raises.  Prices are mids in price units, quantities are *)
(* in thousandths as in the sizing.                                        *)
(***************************************************************************)
slippage_bps == 5

\* max_spread_bps=execution_cfg.slippage_bps * 2 (main.py 411)
max_spread_bps == slippage_bps * 2

Mids == {9989, 9990, 10000, 10010, 10011}

EntryLots == {1, 3}

IsAcceptableAlways(primary_mid, hedge_mid) == TRUE

\* spread_bps = |primary_mid - hedge_mid| / avg_mid * 10000 <= max_spread_bps
IsAcceptable(primary_mid, hedge_mid) ==
    Abs(primary_mid - hedge_mid) * 10000 * 2 <= max_spread_bps * (primary_mid + hedge_mid)

GetCoordinatedPrices(primary_mid, hedge_mid) ==
    [primary_price |-> primary_mid, hedge_price |-> hedge_mid,
     is_acceptable |-> IsAcceptable(primary_mid, hedge_mid)]

NoIntent == [kind |-> "none"]

Leg(sym, side, size, order_type, reduce_only) ==
    [symbol |-> sym, side |-> side, size |-> size, order_type |-> order_type,
     reduce_only |-> reduce_only]

\* lines 434-470
EntryIntent(sym, decision, coords, lighter_lot, hl_lot) ==
    LET lighter_qty == CalculateQuantity(decision.size, coords.primary_price, lighter_lot).num
        hl_qty == CalculateQuantity(decision.size, coords.hedge_price, hl_lot).num
        primary_side == PrimarySide(decision.direction)
        hedge_side == HedgeSide(primary_side)
    IN  [kind |-> "entry",
         leg_a |-> Leg(sym, primary_side, lighter_qty, "limit", FALSE),
         leg_b |-> Leg(sym, hedge_side, hl_qty, "limit", FALSE)]

OppositeSide(side) == IF side = "buy" THEN "sell" ELSE "buy"

\* lines 574-597
ExitIntent(sym, lighter_pos, hl_pos, order_type) ==
    [kind |-> "exit",
     leg_a |-> Leg(sym, OppositeSide(lighter_pos.side), lighter_pos.size, order_type, TRUE),
     leg_b |-> Leg(sym, OppositeSide(hl_pos.side), hl_pos.size, order_type, TRUE)]

IntentFrame ==
    UNCHANGED <<deployment, pc, idx, opportunities, allocations, exitKeys, engine, decided>>

PrepareEntry ==
    /\ call = NoCall
    /\ \E direction \in {"long_hl_short_lighter", "long_lighter_short_hl"},
          size \in {1000, 2000, -2000}, approved \in BOOLEAN, raises \in BOOLEAN,
          primary_mid \in Mids, hedge_mid \in Mids,
          lighter_lot \in EntryLots, hl_lot \in EntryLots :
         LET decision == [TestDecision EXCEPT !.direction = direction, !.size = size]
             coords == GetCoordinatedPrices(primary_mid, hedge_mid)
             intent == EntryIntent("A", decision, coords, lighter_lot, hl_lot)
             o == IF ~approved THEN Outcome("risk_rejected", "-", 0, 0, "limit")
                  ELSE IF ~coords.is_acceptable
                  THEN Outcome("spread_too_wide", "-", 0, 0, "limit")
                  ELSE IF raises THEN Outcome("exec_error", "primary", 0, 0, "limit")
                  ELSE Outcome("filled", "-", intent.leg_a.size, intent.leg_b.size, "limit")
             e == EntryEffect("A", decision, o, 0)
         IN  /\ call' = [op |-> "execute_entry", symbol |-> "A", decision |-> decision,
                         approved |-> approved, primary_mid |-> primary_mid,
                         hedge_mid |-> hedge_mid, lighter_lot |-> lighter_lot,
                         hl_lot |-> hl_lot]
             /\ ret' = [log |-> e.log,
                        intent |-> IF o.kind \in {"filled", "exec_error"}
                                   THEN intent ELSE NoIntent]
             /\ positions' = e.positions
             /\ portfolio' = e.portfolio
             /\ store' = e.store
             /\ killswitch' = e.killswitch
             /\ emitted' = e.emitted
             /\ log' = e.log
             /\ transitions' = e.transitions
             /\ ctxState' = e.transitions[Len(e.transitions)]
    /\ IntentFrame

PrepareExit ==
    /\ call # NoCall
    /\ call.op = "execute_entry"
    /\ "A" \in Keys(positions)
    /\ \E lighter_pos \in VenuePositions \cup {NoPosition},
          hl_pos \in VenuePositions \cup {NoPosition},
          prices \in {"ok", "price_failed"}, raises \in BOOLEAN :
         LET order_type == IF prices = "ok" THEN "limit" ELSE "market"
             intent == ExitIntent("A", lighter_pos, hl_pos, order_type)
             o == IF ~lighter_pos.present \/ ~hl_pos.present
                  THEN Outcome("no_positions", "-", 0, 0, order_type)
                  ELSE IF raises THEN Outcome("exec_error", "primary", 0, 0, order_type)
                  ELSE Outcome("filled", "-", lighter_pos.size, hl_pos.size, order_type)
             e == ExitEffect("A", o, 0)
         IN  /\ call' = [op |-> "execute_exit", symbol |-> "A",
                         lighter_pos |-> lighter_pos, hl_pos |-> hl_pos,
                         prices |-> prices]
             /\ ret' = [log |-> e.log,
                        intent |-> IF o.kind \in {"filled", "exec_error"}
                                   THEN intent ELSE NoIntent]
             /\ positions' = e.positions
             /\ portfolio' = e.portfolio
             /\ store' = e.store
             /\ killswitch' = e.killswitch
             /\ emitted' = e.emitted
             /\ log' = e.log
             /\ transitions' = e.transitions
             /\ ctxState' = e.transitions[Len(e.transitions)]
    /\ IntentFrame

IntentNext == PrepareEntry \/ PrepareExit

IntentSpec == Init /\ [][IntentNext]_vars

(***************************************************************************)
(* Properties of the controller.                                           *)
(***************************************************************************)
EntryIntents(e) == {i \in e : i.kind = "entry"}

NoDuplicateKeys == Len(positions) = Cardinality(Keys(positions))

EntryOnlyWhenClosed ==
    \A i \in EntryIntents(emitted') :
        i.symbol \notin Keys(positions) /\ i.symbol \notin DOMAIN portfolio

\* C1: the open-position map never holds two entries for one symbol, and no step
\* submits an entry intent for a symbol that is open in the controller map or
\* registered in the Portfolio Manager.
C1_ExclusivePosition == []NoDuplicateKeys /\ [][EntryOnlyWhenClosed]_vars

\* The engine asked to enter a symbol that is open in the controller map and in
\* the Portfolio Manager; allocate left it out and the allocation loop runs for
\* another symbol.
C1_Witness ==
    /\ pc = "entry"
    /\ \E i \in 1..Len(opportunities) :
          /\ opportunities[i].symbol \in Keys(positions)
          /\ opportunities[i].symbol \in DOMAIN portfolio
          /\ \A j \in 1..Len(allocations) :
                allocations[j].symbol # opportunities[i].symbol

\* C2: every entry of the open-position map has both legs filled and the two
\* fills within the imbalance tolerance.
C2_TwoSidedOpening ==
    \A i \in 1..Len(positions) :
        /\ positions[i].v.lighter_filled > 0
        /\ positions[i].v.hl_filled > 0
        /\ positions[i].v.is_balanced

\* C3: a step in which the entry's router call raises ExecutionError leaves the
\* open-position map, the Portfolio Manager and the position store as they were,
\* records exactly one kill-switch failure, submits the intent once and moves on
\* to the next allocation.
C3_FailedEntryStep ==
    (log' = "execution.failed") =>
        /\ positions' = positions
        /\ portfolio' = portfolio
        /\ store' = store
        /\ killswitch'.consecutive_failures = killswitch.consecutive_failures + 1
        /\ Cardinality(EntryIntents(emitted')) = 1
        /\ ~(pc' = "entry" /\ idx' = idx)

C3_FailedEntry == [][C3_FailedEntryStep]_vars

C3_Witness == log = "execution.failed" /\ pc = "entry" /\ idx = 2

\* C4: a step taken with the kill switch tripped submits no entry intent and no
\* rebalance order.
C4_HaltPropagation ==
    [][killswitch.is_tripped =>
          \A i \in emitted' : i.kind \notin {"entry", "rebalance"}]_vars

\* C5: when evaluate returns an exit decision for a symbol of the open-position
\* map (the funding poll succeeded, the kill switch is not tripped, and the
\* venues answer the position query with both legs), the same step submits the
\* exit intent for that symbol.
C5_ExitExecuted ==
    [][(/\ decided'.action = "exit"
        /\ decided'.symbol \in Keys(positions)
        /\ ~killswitch.is_tripped
        /\ log' \notin {"exit_no_positions", "exit_check_failed"})
       => \E i \in emitted' : i.kind = "exit" /\ i.symbol = decided'.symbol]_vars

\* C6: a symbol leaves the open-position map only in a step that closed it on a
\* completed exit of both legs.
C6_RemovedOnlyOnExitFill ==
    [][\A s \in Keys(positions) \ Keys(positions') : log' = "position_closed"]_vars

\* C7: at the top of the loop (the end of a tick) the position store holds the
\* open-position map.
C7_StoreEqualsMap == (pc = "top") => (Load(store) = positions)

PendingAllocations ==
    IF pc = "entry"
    THEN SumSeq([i \in 1..(Len(allocations) - idx + 1) |->
                    allocations[idx + i - 1].allocated_notional])
    ELSE 0

\* C8: the notionals registered in the Portfolio Manager plus the allocations
\* still pending in the tick sum to at most max_total_notional, and each
\* registered notional is at most max_symbol_notional.
C8_CapitalCap ==
    /\ SumFun(portfolio) + PendingAllocations <= max_total_notional
    /\ \A s \in DOMAIN portfolio : portfolio[s] <= max_symbol_notional

AllowedTransition(from, to) ==
    \/ to = "exiting" /\ from = "hedged"
    \/ to = "hedged" /\ from \in {"entering", "rebalancing"}
    \/ to \notin {"exiting", "hedged"}

\* C9: context.state becomes EXITING only from HEDGED and HEDGED only from
\* ENTERING or REBALANCING.
C9_Lifecycle ==
    [][LET chain == <<ctxState>> \o transitions'
       IN  \A i \in 1..(Len(chain) - 1) :
              chain[i] # chain[i + 1] => AllowedTransition(chain[i], chain[i + 1])]_vars

\* C10: no exception ends the loop; it stops only on a tripped kill switch.
C10_LoopSurvives == pc # "crashed" /\ (pc = "halted" => killswitch.is_tripped)

\* C28: a start of the process puts every symbol of the position store into
\* the controller's open-position map and the Portfolio Manager's open map
\* before the first tick, and no step submits an entry intent for a stored
\* symbol that is open in the controller's map.
C28_Step ==
    /\ log' = "bot.initialized" =>
          \A s \in Keys(Load(store')) :
              s \in Keys(positions') /\ s \in DOMAIN portfolio'
    /\ \A i \in EntryIntents(emitted') :
          ~(i.symbol \in Keys(Load(store)) /\ i.symbol \in Keys(positions))

C28_RestoredNotReentered == [][C28_Step]_vars

\* The engine asked to enter a symbol that is in the position store and open;
\* allocate left it out and another symbol is being entered.
C28_Witness ==
    /\ pc = "entry"
    /\ \E i \in 1..Len(opportunities) :
          /\ opportunities[i].symbol \in Keys(Load(store))
          /\ opportunities[i].symbol \in Keys(positions)
          /\ opportunities[i].symbol \in DOMAIN portfolio
          /\ \A j \in 1..Len(allocations) :
                allocations[j].symbol # opportunities[i].symbol

\* C37: at the end of every tick every symbol of the Strategy Engine's open
\* map has an entry in the controller's open-position map.
C37_EngineOpenIsTracked ==
    pc = "top" => DOMAIN engine \subseteq Keys(positions)

\* C38: at the end of every tick the controller's open-position map and the
\* Portfolio Manager hold the same symbols.
C38_MapEqualsPortfolio ==
    pc = "top" => Keys(positions) = DOMAIN portfolio

\* C39: in one run of the loop, a tick that starts with the kill switch tripped
\* leaves the loop without submitting anything, nothing is submitted after the
\* loop has halted, and every trip is eventually followed by the end of the loop.
C39_Step ==
    /\ (killswitch.is_tripped /\ pc = "top") => (pc' = "halted" /\ emitted' = {})
    /\ pc = "halted" => (pc' = "halted" /\ emitted' = {})

C39_TripEndsLoop ==
    /\ [][C39_Step]_vars
    /\ killswitch.is_tripped ~> pc \in {"halted", "crashed"}

C39_Witness ==
    /\ pc = "halted"
    /\ log = "bot_halted"
    /\ killswitch.is_tripped
    /\ positions # <<>>

(***************************************************************************)
(* Properties of the Strategy Engine.                                      *)
(***************************************************************************)
SnapshotEdge(c) == c.hyperliquid_rate_bps - c.lighter_rate_bps

C12_Step ==
    (call'.op = "evaluate") =>
        LET edge == SnapshotEdge(call')
            wasOpen == call'.symbol \in DOMAIN engine
            far(e, bound) == e >= bound \/ e <= -bound
            near(e, bound) == e <= bound /\ e >= -bound
        IN  /\ ret'.action \in {"enter", "exit", "none"}
            /\ ret'.action = "enter" <=> (~wasOpen /\ far(edge, min_edge_bps))
            /\ ret'.action = "exit" <=> (wasOpen /\ near(edge, exit_edge_bps))
            /\ ret'.action # "none" => ret'.symbol = call'.symbol

\* C12: evaluate returns an enter decision exactly when the symbol is not open
\* and |edge| >= min_edge_bps, an exit decision exactly when it is open and
\* |edge| <= exit_edge_bps, nothing otherwise, and one decision at most, for the
\* snapshot's symbol.
C12_Hysteresis == [][C12_Step]_vars

\* An open symbol was closed by an edge of exactly exit_edge_bps.
C12_Witness ==
    /\ call.op = "evaluate"
    /\ ret.action = "exit"
    /\ SnapshotEdge(call) = exit_edge_bps

C13_Step ==
    (call'.op = "evaluate") =>
        /\ ret'.action = "enter" =>
              call'.symbol \notin DOMAIN engine /\ call'.symbol \in DOMAIN engine'
        /\ \A s \in DOMAIN engine \ DOMAIN engine' :
              ret'.action = "exit" /\ ret'.symbol = s

\* C13: a symbol is recorded as entered by its enter decision and stays so until
\* its exit decision is returned, whichever symbols are evaluated in between;
\* while it is recorded no evaluate returns an enter decision for it.
C13_NoRepeatedEnter == [][C13_Step]_vars

\* Symbol A, entered earlier and held together with B, was evaluated with an
\* edge above min_edge_bps and no decision was returned.
C13_Witness ==
    /\ call.op = "evaluate"
    /\ call.symbol = "A"
    /\ "A" \in DOMAIN engine
    /\ "B" \in DOMAIN engine
    /\ SnapshotEdge(call) = 40
    /\ ret.action = "none"

LowerRateVenue(c) ==
    IF c.hyperliquid_rate_bps < c.lighter_rate_bps THEN "hyperliquid" ELSE "lighter"

LongVenue(direction) ==
    IF direction = "long_hl_short_lighter" THEN "hyperliquid" ELSE "lighter"

BuyVenue(direction) ==
    IF PrimarySide(direction) = "buy" THEN "lighter" ELSE "hyperliquid"

\* C14: an enter decision is long on the venue whose funding rate is lower, and
\* the BUY leg of the entry is placed on that venue, the SELL leg on the other.
C14_LongTheLowerRate ==
    (call.op = "evaluate" /\ ret.action = "enter") =>
        /\ LongVenue(ret.direction) = LowerRateVenue(call)
        /\ BuyVenue(ret.direction) = LowerRateVenue(call)
        /\ HedgeSide(PrimarySide(ret.direction)) # PrimarySide(ret.direction)

\* C31: an exit decision has the direction the engine recorded when the symbol
\* was entered and the edge of the snapshot that triggered the exit.
C31_Step ==
    (call'.op = "evaluate" /\ ret'.action = "exit") =>
        /\ ret'.direction = engine[call'.symbol].direction
        /\ ret'.edge_bps = SnapshotEdge(call')

C31_ExitCarriesSnapshotEdge == [][C31_Step]_vars

(***************************************************************************)
(* Properties of the Portfolio Manager.                                    *)
(***************************************************************************)
\* The opportunity lists the loop can hand to allocate: per tracked symbol, in
\* order, no opportunity or an enter decision of edge +40 or -40.
OpportunityList(edges) ==
    SelectSeq([i \in 1..Len(tracked_symbols) |->
                  [symbol |-> tracked_symbols[i], edge_bps |-> edges[i],
                   direction |-> Direction(edges[i]), size |-> order_notional,
                   action |-> "enter"]],
              LAMBDA d : d.edge_bps # 0)

AllocationsWithinLimits(allocs, open) ==
    /\ SumSeq([i \in 1..Len(allocs) |-> allocs[i].allocated_notional]) + SumFun(open)
          <= max_total_notional
    /\ \A i \in 1..Len(allocs) : allocs[i].allocated_notional <= max_symbol_notional
    /\ Len(allocs) <= max_positions - Cardinality(DOMAIN open)
    /\ \A i \in 1..Len(allocs) : allocs[i].symbol \notin DOMAIN open

\* C15: whatever the Portfolio Manager holds and whatever opportunities it is
\* given, allocate returns allocations that with the open notionals sum to at
\* most max_total_notional, are each at most max_symbol_notional, number at most
\* max_positions minus the open positions, and name no open symbol.
C15_AllocateWithinLimits ==
    \A edges \in [1..Len(tracked_symbols) -> {0, 40, -40}] :
        AllocationsWithinLimits(Allocate(OpportunityList(edges), portfolio), portfolio)

Allocated == {ret.allocations[j].symbol : j \in 1..Len(ret.allocations)}

\* C29: whatever the order of the list, the candidates that receive an
\* allocation are those with the largest |edge_bps|: no candidate without a
\* position is passed over in favour of one with a smaller |edge_bps|.
C29_LargestEdgeFirst ==
    call.op = "allocate" =>
        \A i, j \in 1..Len(call.opportunities) :
            LET taken == call.opportunities[i]
                left  == call.opportunities[j]
            IN  /\ taken.symbol \in Allocated
                /\ left.symbol \notin Allocated
                /\ left.symbol \notin DOMAIN call.open
                => Abs(left.edge_bps) <= Abs(taken.edge_bps)

\* C30: every allocated notional is at least 0 and at most 2 * base_notional,
\* for opportunities of either edge sign.
C30_AllocationNonNegative ==
    call.op = "allocate" =>
        \A j \in 1..Len(ret.allocations) :
            /\ ret.allocations[j].allocated_notional >= 0
            /\ ret.allocations[j].allocated_notional <= MaxMultiplier * order_notional

(***************************************************************************)
(* Properties of the Kill Switch.                                          *)
(***************************************************************************)
C16_Step ==
    /\ call'.op = "record_success" => killswitch'.consecutive_failures = 0
    /\ (killswitch.is_tripped /\ call'.op # "reset") => killswitch'.is_tripped

\* C16: consecutive_failures is 0 after every record_success, and a tripped
\* switch stays tripped through every record_success, record_failure and trip,
\* until reset.
C16_TripIsSticky == [][C16_Step]_vars

\* record_success was called on a tripped switch that held failures.
C16_Witness ==
    /\ call.op = "record_success"
    /\ killswitch.is_tripped
    /\ Len(killswitch.failure_timestamps) > 0

\* failures at most one hour old at time now, the one recorded at now included
RecentFailures(failure_timestamps, now) ==
    Cardinality({i \in 1..Len(failure_timestamps) : now - failure_timestamps[i] < HOUR}) + 1

C17_Step ==
    /\ call'.op = "record_failure" =>
          LET due == \/ killswitch.consecutive_failures + 1 >= max_consecutive_failures
                     \/ RecentFailures(killswitch.failure_timestamps, call'.now)
                           >= max_total_failures_per_hour
          IN  /\ ret'.tripped = due
              /\ killswitch'.is_tripped = (killswitch.is_tripped \/ due)
    /\ call'.op = "record_success" =>
          killswitch'.failure_timestamps = killswitch.failure_timestamps

\* C17: record_failure trips the switch exactly when the consecutive failures
\* reach max_consecutive_failures or the failures of the last hour reach
\* max_total_failures_per_hour; failures older than an hour are not counted, and
\* record_success leaves the recorded failures as they are.
C17_TripConditions == [][C17_Step]_vars

\* The switch tripped on the failures of the last hour, below the consecutive
\* limit.
C17_Witness ==
    /\ call.op = "record_failure"
    /\ ret.tripped
    /\ killswitch.consecutive_failures < max_consecutive_failures
    /\ Len(killswitch.failure_timestamps) >= max_total_failures_per_hour

(***************************************************************************)
(* Properties of the Rebalancer.                                           *)
(***************************************************************************)
NetExposure(c) == Signed(c.lighter_pos) + Signed(c.hl_pos)

\* C19: for a drift of net signed exposure total, plan_rebalance returns a SELL
\* when total > 0 and a BUY when total < 0, on hyperliquid (the hedge venue),
\* of quantity |total|; the order applied to the hedge position makes the net
\* exposure zero.
C19_PlanNeutralises ==
    (call.op = "plan_rebalance" /\ ret.drift.detected) =>
        LET total == NetExposure(call)
            applied == IF ret.action.side = "buy"
                       THEN ret.action.quantity ELSE -ret.action.quantity
        IN  /\ total > 0 => ret.action.side = "sell"
            /\ total < 0 => ret.action.side = "buy"
            /\ ret.action.exchange = "hyperliquid"
            /\ ret.action.quantity = Abs(total)
            /\ Signed(call.lighter_pos) + Signed(call.hl_pos) + applied = 0

\* A net short pair (long 98 on lighter, short 100 on hyperliquid) got a BUY of 2.
C19_Witness ==
    /\ call.op = "plan_rebalance"
    /\ ret.drift.detected
    /\ NetExposure(call) = -2
    /\ ret.action.side = "buy"
    /\ ret.action.quantity = 2

\* C27: for an open symbol a rebalance order is submitted exactly when
\* |total| / avg_size * 10^4 >= drift_threshold_bps, total the net signed
\* exposure over the two venues, a venue that reports no position counting
\* as size 0 (stated here for the ticks whose price fetch succeeds).
C27_RebalancesAtThreshold ==
    (call.op = "check_and_rebalance" /\ call.prices = "ok") =>
        LET total == NetExposure(call)
            sum2 == Abs(Signed(call.lighter_pos)) + Abs(Signed(call.hl_pos))
        IN  ret.submitted
              = (sum2 > 0 /\ Abs(total) * 10000 * 2 >= drift_threshold_bps * sum2)

C21_Step ==
    /\ call.op = "resilient_stream" /\ ret.op = "sleep"
         => call'.factory_calls = call.factory_calls + 1
    /\ call.op = "resilient_stream" /\ ret'.op = "yield" => call'.retry_count = 0

C21_State ==
    call.op = "resilient_stream" =>
        /\ (call.at = "raised") = (call.failures = call.max_retries)
        /\ ret.op = "raise" => call.at = "raised"
        /\ ret.op = "sleep" =>
             /\ ret.wait_seconds = Min(Pow2(call.failures), 60)
             /\ call.at = "loop" /\ call.retry_count < call.max_retries

C21_ResilientStream == []C21_State /\ [][C21_Step]_vars

\* The exception reaches the consumer of a stream with max_retries = 3 after
\* more than three connections.
C21_Witness ==
    /\ call.op = "resilient_stream"
    /\ ret.op = "raise"
    /\ call.max_retries = 3
    /\ call.factory_calls > call.max_retries

\* C40: a stream that ends without an exception is not counted as a retry and
\* is followed by no wait: the generator's next step is the next call of the
\* factory, whose while test still holds; the generator stops only by raising
\* on the exception that brings the count to max_retries.
C40_Step ==
    call.op = "resilient_stream" =>
        /\ ret'.op = "end" => /\ call'.retry_count = call.retry_count
                              /\ call'.failures = call.failures
        /\ ret.op = "end" => /\ ret'.op = "connect"
                             /\ call'.factory_calls = call.factory_calls + 1
        /\ call'.at = "raised" => /\ ret'.op = "raise"
                                  /\ call.retry_count + 1 = call.max_retries

C40_State ==
    call.op = "resilient_stream" =>
        /\ ret.op = "end" => call.at = "loop" /\ call.retry_count < call.max_retries
        /\ call.at # "raised" => call.retry_count < call.max_retries

C40_NormalEndReconnects == []C40_State /\ [][C40_Step]_vars

\* A generator with max_retries = 2 that has counted one exception is on its
\* sixth stream, which ends normally.
C40_Witness ==
    /\ call.op = "resilient_stream"
    /\ ret.op = "end"
    /\ call.max_retries = 2
    /\ call.retry_count = 1
    /\ call.factory_calls = 6

(***************************************************************************)
(* Properties of retry_api_call.                                           *)
(***************************************************************************)
\* what the venue's answers call for: the first answer that is not a
\* transport error, or the third transport error
RECURSIVE Awaited(_, _)
Awaited(script, n) ==
    IF script[n] \in Transport /\ n < 3
    THEN Awaited(script, n + 1)
    ELSE [outcome |-> script[n], attempts |-> n, requests |-> n]

\* C22: a wrapped venue call that fails with a transport error is requested
\* again until it succeeds or three requests were made, and then the last
\* transport error is raised; a semantic error is raised after one request.
C22_RetriesTransportErrors ==
    call.op = "poll_funding" =>
        /\ ret.hyperliquid = Awaited(call.hl_script, 1)
        /\ ret.lighter.attempts > 0 => ret.lighter = Awaited(call.lg_script, 1)

C24_ParallelFailureTracked ==
    call.op = "execute_entry" /\ ret.raised = "parallel" =>
        /\ ret.results = <<call.env.seq_primary, call.env.seq_hedge>>
        /\ (call.intent.symbol \in Keys(positions))
             = ~NeedsCorrection(ret.results[1].filled_size, ret.results[2].filled_size)

\* C25: when the fills need correction and the makeup order raises, execute
\* still returns a result, and the controller records the makeup failure as
\* one more kill-switch failure.
C25_Step ==
    call'.op = "execute_entry" /\ ret'.needs_correction
    /\ call'.env.correction = "raises" =>
        /\ ret'.raised = "none"
        /\ killswitch'.consecutive_failures = killswitch.consecutive_failures + 1
        /\ killswitch'.window = killswitch.window + 1

C25_MakeupFailureRecorded == [][C25_Step]_vars

(***************************************************************************)
(* Properties of the orders in flight.                                     *)
(***************************************************************************)
\* C32: the orders in flight for one symbol belong to one operation and are
\* its two legs: no two of them are on the same venue.
C32_OneOperationPerSymbol ==
    call.op = "dispatch" =>
        \A o1, o2 \in call.in_flight :
            o1.symbol = o2.symbol /\ o1 # o2 =>
                o1.intent = o2.intent /\ o1.venue # o2.venue

(***************************************************************************)
(* Properties of the intents of execute_entry and execute_exit.            *)
(***************************************************************************)
\* C33: when the mid spread of the two venues is above the maximum spread the
\* entry is skipped: no intent is built, no order is handed to the router and
\* the symbol is not added to the open-position map.
C33_WideSpreadSkipsEntry ==
    (/\ call.op = "execute_entry"
     /\ call.approved
     /\ Abs(call.primary_mid - call.hedge_mid) * 20000
          > max_spread_bps * (call.primary_mid + call.hedge_mid)) =>
        /\ ret.intent = NoIntent
        /\ emitted = {}
        /\ call.symbol \notin Keys(positions)
        /\ call.symbol \notin DOMAIN portfolio
        /\ log = "price_spread_too_wide"

\* Mids 10000 and 10011 are just above 10 bps apart: the entry was skipped.
C33_Witness ==
    /\ call.op = "execute_entry"
    /\ call.approved
    /\ call.primary_mid = 10000 /\ call.hedge_mid = 10011
    /\ log = "price_spread_too_wide"
    /\ emitted = {}

\* size is the largest multiple of lot at most notional / price
SizedFrom(size, notional, price, lot) ==
    /\ size % lot = 0
    /\ size * price <= notional * QtyScale
    /\ (size + lot) * price > notional * QtyScale

\* C34: an entry intent has two legs for one symbol, one BUY and one SELL, both
\* sized from the decision's notional; an exit intent has two reduce-only legs
\* whose sides are the opposite of the sides of the venues' positions.
C34_IntentLegs ==
    /\ (call.op = "execute_entry" /\ ret.intent # NoIntent) =>
          /\ ret.intent.leg_a.symbol = call.symbol
          /\ ret.intent.leg_b.symbol = call.symbol
          /\ {ret.intent.leg_a.side, ret.intent.leg_b.side} = {"buy", "sell"}
          /\ SizedFrom(ret.intent.leg_a.size, call.decision.size, call.primary_mid,
                       call.lighter_lot)
          /\ SizedFrom(ret.intent.leg_b.size, call.decision.size, call.hedge_mid,
                       call.hl_lot)
    /\ (call.op = "execute_exit" /\ ret.intent # NoIntent) =>
          /\ ret.intent.leg_a.symbol = call.symbol
          /\ ret.intent.leg_b.symbol = call.symbol
          /\ ret.intent.leg_a.reduce_only /\ ret.intent.leg_b.reduce_only
          /\ ret.intent.leg_a.side # call.lighter_pos.side
          /\ ret.intent.leg_b.side # call.hl_pos.side

\* An exit intent for a long-lighter, short-hyperliquid pair after an entry.
C34_Witness ==
    /\ call.op = "execute_exit"
    /\ ret.intent # NoIntent
    /\ call.lighter_pos.side = "buy" /\ call.hl_pos.side = "sell"
    /\ ret.intent.leg_a.side = "sell" /\ ret.intent.leg_b.side = "buy"

(***************************************************************************)
(* Properties of the PnL ledger.                                           *)
(***************************************************************************)
IsPrefix(s, t) == Len(s) <= Len(t) /\ \A i \in 1..Len(s) : s[i] = t[i]

\* C35: the record lists of each written ledger extend those of the ledger
\* written before it, across record_trade, record_funding and restarts.
C35_Step ==
    (ret'.op = "file") =>
        /\ IsPrefix(LedgerFile.trades, ret'.trades)
        /\ IsPrefix(LedgerFile.funding_payments, ret'.funding_payments)

C35_LedgerAppendOnly == [][C35_Step]_vars

(***************************************************************************)
(* Properties of the Execution Router.                                     *)
(***************************************************************************)
HedgeFailedInRetry ==
    /\ call.op = "execute"
    /\ call.env.par_primary.raises \/ call.env.par_hedge.raises
    /\ ~call.env.seq_primary.raises
    /\ call.env.seq_hedge.raises

\* C11: when the sequential re-attempt places the primary order and the hedge
\* placement raises, the router's last venue call is cancel_order on the primary
\* venue with the primary result's exchange_order_id, made after the hedge
\* placement, and the error raised is ExecutionError with leg hedge, also when
\* cancel_order raises.
C11_HedgeFailureCancelsPrimary ==
    HedgeFailedInRetry =>
        /\ ret.raised = "hedge"
        /\ ret.calls[Len(ret.calls)] =
               CancelCall("primary", call.env.seq_primary.exchange_order_id)
        /\ ret.calls[Len(ret.calls) - 1] = PlaceCall("hedge", "leg_b", call.intent.leg_b_side,
                                                  call.intent.leg_b_size)
        /\ Cardinality({i \in 1..Len(ret.calls) : ret.calls[i].op = "cancel_order"}) = 1

\* The hedge placement of the re-attempt raised and cancel_order raised as well.
C11_Witness == HedgeFailedInRetry /\ call.env.cancel = "raises"

Makeups == {i \in 1..Len(ret.calls) : ret.calls[i].order = "correction"}

C26_MakeupSameSide ==
    (call.op = "execute" /\ ret.raised = "none") =>
        LET p == call.env.par_primary.filled_size
            h == call.env.par_hedge.filled_size
        IN  \A i \in Makeups :
              /\ p < h /\ p < call.intent.leg_a_size
                   => ret.calls[i].side = call.intent.leg_a_side
              /\ h < p /\ h < call.intent.leg_b_size
                   => ret.calls[i].side = call.intent.leg_b_side

PlacedTimes(order) ==
    Cardinality({i \in 1..Len(ret.calls) :
                    ret.calls[i].op = "place_order" /\ ret.calls[i].order = order})

Cancelled == {ret.calls[i].order : i \in {j \in 1..Len(ret.calls) :
                                             ret.calls[j].op = "cancel_order"}}

\* C36: within one execute a leg that its venue accepted in the parallel
\* dispatch is not placed again, and when the call ends in ExecutionError with
\* leg=hedge a cancel was attempted for every order the primary venue accepted.
C36_NoDuplicateLeg ==
    call.op = "execute" =>
        /\ ~call.env.par_primary.raises => PlacedTimes("leg_a") = 1
        /\ ~call.env.par_hedge.raises => PlacedTimes("leg_b") = 1
        /\ ret.raised = "hedge" =>
              /\ call.env.seq_primary.exchange_order_id \in Cancelled
              /\ ~call.env.par_primary.raises =>
                    call.env.par_primary.exchange_order_id \in Cancelled

====
